---- MODULE Spec2Model ----
(***************************************************************************)
(* Verification model of the job-recommendation engine:                    *)
(*   - DynamicWeightCalculator        (app/services/weight_calculator.py)  *)
(*   - JobMatcherService              (app/services/job_matcher.py)        *)
(*   - JobRecommendationSystem        (app/job_recommendation_system)      *)
(*   - FastJobRecommendationSystem    (vectorised retrieval + match cache) *)
(*   - WeightUpdater                  (ml_preferences/services)            *)
(*                                                                         *)
(* Numbers.  Python floats are modelled by exact fractions: a value is an  *)
(* integer numerator over a unit that is carried with it (weights) or is   *)
(* fixed per subsystem (scores, multipliers).  Comparisons of fractions    *)
(* with different units are exact (CmpFrac).                               *)
(***************************************************************************)
EXTENDS Integers, Sequences, FiniteSets, TLC

VARIABLES
    \* DynamicWeightCalculator object fields
    base_weights, industry_weights, career_stage_adjustments, market_conditions,
    \* last call of calculate_optimal_weights: arguments and returned WeightConfig
    wcIn, wcOut,
    \* preference learning: user_job_preferences statistics per user, the
    \* user_weight_adjustments table, the update_user_weights call in progress
    \* per user, and the number of weight operations started
    feedback, weight_adjustments, upd_call, ml_ops,
    \* one scorer call: its arguments and the score it returned
    scIn, scOut,
    \* one batch call: its arguments, and what recommend_jobs and
    \* match_candidate_to_jobs produced for them
    batIn, rjOut, mcOut,
    \* the fast system: the stored JobVector per job id, ResumeVector per
    \* candidate id and cached MatchResult per (candidate id, job id); the
    \* vectors and ids of the two search indices; the last and the previous
    \* response of get_job_recommendations; whether nothing was posted,
    \* uploaded or expired since the last request; the number of requests
    db_jobs, db_resumes, db_matches, job_index, resume_index, fastOut, prevOut,
    undisturbed, requests,
    \* batch training: the feedback rows per user, the coefficients a fit on
    \* them yields, the model file per user, what the last run returned and
    \* found stored, and the number of runs
    feedback_log, fit_result, user_models, train_out, train_runs,
    \* VectorizationService: its index fields, the (job id, embedding) pairs
    \* added so far, and the last search with its result
    vz_service, vz_added, vz_out,
    \* the weighting steps of the job matcher so far: the user, the row stored
    \* for them at that moment and the weights the calculator returned
    pw_log,
    \* one call of prepare_training_data: the feedback records it is given
    \* and the training set it returns
    tdIn, tdOut,
    \* the calls of calculate_optimal_weights in progress: position, arguments,
    \* the reference held and the object created
    wc_calls

calcVars == <<base_weights, industry_weights, career_stage_adjustments,
              market_conditions, wcIn, wcOut>>

mlVars == <<feedback, weight_adjustments, upd_call, ml_ops>>

scVars == <<scIn, scOut>>

batchVars == <<batIn, rjOut, mcOut>>

fastVars == <<db_jobs, db_resumes, db_matches, job_index, resume_index, fastOut,
              prevOut, undisturbed, requests>>

trainVars == <<feedback_log, fit_result, user_models, train_out, train_runs>>

vzVars == <<vz_service, vz_added, vz_out>>

persVars == <<pw_log>>

tdVars == <<tdIn, tdOut>>

callVars == <<wc_calls>>

vars == <<calcVars, mlVars, scVars, batchVars, fastVars, trainVars, vzVars, persVars, tdVars, callVars>>

otherThanCalc == <<mlVars, scVars, batchVars, fastVars, trainVars, vzVars, persVars, tdVars, callVars>>

otherThanMl == <<calcVars, scVars, batchVars, fastVars, trainVars, vzVars, persVars, tdVars, callVars>>

otherThanSc == <<calcVars, mlVars, batchVars, fastVars, trainVars, vzVars, persVars, tdVars, callVars>>

otherThanBatch == <<calcVars, mlVars, scVars, fastVars, trainVars, vzVars, persVars, tdVars, callVars>>

otherThanFast == <<calcVars, mlVars, scVars, batchVars, trainVars, vzVars, persVars, tdVars, callVars>>

otherThanTraining == <<calcVars, scVars, batchVars, fastVars, vzVars, persVars, tdVars, callVars>>

otherThanVz == <<calcVars, mlVars, scVars, batchVars, fastVars, trainVars, persVars, tdVars, callVars>>

otherThanPers == <<scVars, batchVars, fastVars, trainVars, vzVars, tdVars, callVars>>

otherThanTd == <<calcVars, mlVars, scVars, batchVars, fastVars, trainVars, vzVars, persVars, callVars>>

otherThanCalls == <<mlVars, scVars, batchVars, fastVars, trainVars, vzVars, persVars, tdVars>>

\* Python None: a record for optional objects, -1 for optional numbers
None == [none |-> TRUE]

NoneNum == 0 - 1

(***************************************************************************)
(* Generic helpers                                                         *)
(***************************************************************************)
Abs(x) == IF x < 0 THEN 0 - x ELSE x

Min2(a, b) == IF a < b THEN a ELSE b

Max2(a, b) == IF a > b THEN a ELSE b

Range(s) == {s[i] : i \in DOMAIN s}

\* subsets of S with at most n elements
SubsetsUpTo(S, n) == {T \in SUBSET S : Cardinality(T) <= n}

(***************************************************************************)
(* DynamicWeightCalculator                                                 *)
(*                                                                         *)
(* A WeightConfig is a record of seven numerators and the unit they are    *)
(* measured in: the weight is field / unit.  base weights: unit 100.       *)
(***************************************************************************)
WeightFields == {"skill_weight", "experience_weight", "location_weight",
                 "salary_weight", "semantic_weight", "market_demand_weight",
                 "career_growth_weight"}

WeightConfig(sk, ex, lo, sa, se, md, cg, u) ==
    [skill_weight |-> sk, experience_weight |-> ex, location_weight |-> lo,
     salary_weight |-> sa, semantic_weight |-> se, market_demand_weight |-> md,
     career_growth_weight |-> cg, unit |-> u]

\* self.base_weights, in hundredths
InitBaseWeights == WeightConfig(35, 25, 15, 10, 10, 3, 2, 100)

\* self.industry_weights, in hundredths
InitIndustryWeights ==
    [i \in {"technology", "finance", "healthcare", "startup", "enterprise"} |->
        CASE i = "technology" -> WeightConfig(45, 20, 10, 10, 10, 3, 2, 100)
          [] i = "finance"    -> WeightConfig(25, 35, 20, 15, 3, 1, 1, 100)
          [] i = "healthcare" -> WeightConfig(20, 40, 25, 10, 3, 1, 1, 100)
          [] i = "startup"    -> WeightConfig(40, 15, 20, 15, 8, 1, 1, 100)
          [] i = "enterprise" -> WeightConfig(30, 30, 20, 12, 5, 2, 1, 100)]

StageAdj(sk, ex, lo, sa, se) ==
    [skill_weight |-> sk, experience_weight |-> ex, location_weight |-> lo,
     salary_weight |-> sa, semantic_weight |-> se]

\* self.career_stage_adjustments, multipliers in tenths
InitCareerStageAdjustments ==
    [s \in {"entry", "junior", "mid", "senior", "lead", "executive"} |->
        CASE s = "entry"     -> StageAdj(15, 3, 12, 8, 13)
          [] s = "junior"    -> StageAdj(13, 5, 11, 9, 12)
          [] s = "mid"       -> StageAdj(10, 10, 10, 10, 10)
          [] s = "senior"    -> StageAdj(8, 13, 9, 12, 9)
          [] s = "lead"      -> StageAdj(6, 15, 8, 13, 8)
          [] s = "executive" -> StageAdj(4, 18, 7, 15, 7)]

\* self.market_conditions, in tenths
InitMarketConditions ==
    [remote_work_trend |-> 7, skill_shortage |-> 6,
     economic_uncertainty |-> 3, tech_boom |-> 8]

\* Text fields are sets of words; `keyword in text` holds when one of the
\* keywords is a word of the text (the vocabulary below is chosen so that no
\* word contains a keyword other than itself).
AnyKeyword(keywords, text) == keywords \cap text # {}

tech_keywords == {"software", "developer", "engineer", "programmer", "tech",
                  "it", "data scientist", "ai", "ml"}

finance_keywords == {"finance", "banking", "investment", "trading", "analyst",
                     "accountant", "audit"}

healthcare_keywords == {"health", "medical", "nurse", "doctor", "pharmaceutical",
                        "clinical", "patient"}

startup_keywords == {"startup", "scale", "growth", "venture", "funding",
                     "series a", "series b"}

enterprise_keywords == {"enterprise", "corporate", "fortune 500",
                        "multinational", "global"}

_detect_industry(job_data) ==
    LET title == job_data.title
        company == job_data.company_name
        description == job_data.description
    IN  IF AnyKeyword(tech_keywords, title) \/ AnyKeyword(tech_keywords, description)
        THEN "technology"
        ELSE IF AnyKeyword(finance_keywords, title)
                \/ AnyKeyword(finance_keywords, description)
        THEN "finance"
        ELSE IF AnyKeyword(healthcare_keywords, title)
                \/ AnyKeyword(healthcare_keywords, description)
        THEN "healthcare"
        ELSE IF AnyKeyword(startup_keywords, company)
                \/ AnyKeyword(startup_keywords, description)
        THEN "startup"
        ELSE IF AnyKeyword(enterprise_keywords, company)
                \/ AnyKeyword(enterprise_keywords, description)
        THEN "enterprise"
        ELSE "technology"

\* Returns a career stage, or "TypeError" when the experience comparison is
\* reached with experience_years = None (None < 1 raises in Python 3).
_detect_career_stage(user_profile, job_data) ==
    LET user_experience == user_profile.experience_years
        job_title == job_data.title
    IN  IF AnyKeyword({"senior", "lead", "principal", "staff", "architect"}, job_title)
        THEN "senior"
        ELSE IF AnyKeyword({"manager", "director", "vp", "head of", "chief"}, job_title)
        THEN "lead"
        ELSE IF AnyKeyword({"ceo", "cto", "cfo", "president", "executive"}, job_title)
        THEN "executive"
        ELSE IF AnyKeyword({"junior", "entry", "associate", "trainee", "intern"}, job_title)
        THEN "entry"
        ELSE IF user_experience = NoneNum THEN "TypeError"
        ELSE IF user_experience < 1 THEN "entry"
        ELSE IF user_experience < 3 THEN "junior"
        ELSE IF user_experience < 7 THEN "mid"
        ELSE IF user_experience < 12 THEN "senior"
        ELSE "lead"

\* unit grows by 10: the adjustments are tenths
_apply_career_stage_adjustments(weights, career_stage, adjTable) ==
    LET adjustments == adjTable[career_stage]
    IN  WeightConfig(weights.skill_weight * adjustments.skill_weight,
                     weights.experience_weight * adjustments.experience_weight,
                     weights.location_weight * adjustments.location_weight,
                     weights.salary_weight * adjustments.salary_weight,
                     weights.semantic_weight * adjustments.semantic_weight,
                     weights.market_demand_weight * 10,
                     weights.career_growth_weight * 10,
                     weights.unit * 10)

\* preferences are tenths; a missing key defaults to 0.5.  unit grows by 10.
_apply_user_preferences(weights, user_profile) ==
    LET remote_preference == user_profile.remote_preference
        salary_sensitivity == user_profile.salary_sensitivity
        growth_focus == user_profile.career_growth_focus
    IN  WeightConfig(weights.skill_weight * 10,
                     weights.experience_weight * 10,
                     weights.location_weight * (IF remote_preference > 7 THEN 5 ELSE 10),
                     weights.salary_weight * (IF salary_sensitivity > 7 THEN 13 ELSE 10),
                     weights.semantic_weight * 10,
                     weights.market_demand_weight * 10,
                     weights.career_growth_weight * (IF growth_focus > 7 THEN 20 ELSE 10),
                     weights.unit * 10)

\* market values are tenths; 1.0 - t*0.3 = (100 - 3t)/100 and
\* 1.0 + s*0.2 = (100 + 2s)/100 for t, s in tenths.  unit grows by 100.
_apply_market_conditions(weights, market_context) ==
    LET remote_trend == market_context.remote_work_trend
        skill_shortage == market_context.skill_shortage
        economic_uncertainty == market_context.economic_uncertainty
    IN  WeightConfig(weights.skill_weight *
                        (IF skill_shortage > 6 THEN 100 + 2 * skill_shortage ELSE 100),
                     weights.experience_weight * 100,
                     weights.location_weight *
                        (IF remote_trend > 6 THEN 100 - 3 * remote_trend ELSE 100),
                     weights.salary_weight *
                        (IF economic_uncertainty > 6 THEN 80 ELSE 100),
                     weights.semantic_weight * 100,
                     weights.market_demand_weight * 100,
                     weights.career_growth_weight * 100,
                     weights.unit * 100)

\* variant: the total leaves out career_growth_weight
_normalize_weights_short_total(weights, base) ==
    LET total == weights.skill_weight + weights.experience_weight
                 + weights.location_weight + weights.salary_weight
                 + weights.semantic_weight + weights.market_demand_weight
    IN  IF total = 0 THEN base
        ELSE [weights EXCEPT !.unit = total]

\* each weight divided by total: the numerators stay, the unit becomes total
_normalize_weights(weights, base) ==
    LET total == weights.skill_weight + weights.experience_weight
                 + weights.location_weight + weights.salary_weight
                 + weights.semantic_weight + weights.market_demand_weight
                 + weights.career_growth_weight
    IN  IF total = 0 THEN base
        ELSE [weights EXCEPT !.unit = total]

calculate_optimal_weights(user_profile, job_data, market_context, base, indTable, adjTable, defaultMarket) ==
    LET industry == _detect_industry(job_data)
        base_w == indTable[industry]
        career_stage == _detect_career_stage(user_profile, job_data)
    IN  IF career_stage = "TypeError"
        THEN base       \* except Exception: return self.base_weights
        ELSE
          LET adjusted_weights ==
                  _apply_career_stage_adjustments(base_w, career_stage, adjTable)
              user_adjusted_weights ==
                  _apply_user_preferences(adjusted_weights, user_profile)
              market_adjusted_weights ==
                  _apply_market_conditions(
                      user_adjusted_weights,
                      IF market_context = None THEN defaultMarket ELSE market_context)
          IN  _normalize_weights(market_adjusted_weights, base)

(***************************************************************************)
(* Inputs of the weight calculator                                         *)
(***************************************************************************)
MaxTitleWords == 2

TitleWords == {"engineer", "analyst", "nurse", "senior", "manager", "ceo", "junior"}

CompanyWords == {"startup", "enterprise"}

ExperienceYears == {0, 2, 5, 10, 12}

PreferenceTenths == {5, 8}

WcJobs ==
    [title : SubsetsUpTo(TitleWords, MaxTitleWords),
     company_name : SubsetsUpTo(CompanyWords, 1),
     description : {{}}]

WcProfiles ==
    [experience_years : ExperienceYears \cup {NoneNum},
     remote_preference : PreferenceTenths,
     salary_sensitivity : PreferenceTenths,
     career_growth_focus : PreferenceTenths]

WcMarkets ==
    {None} \cup [remote_work_trend : {0, 7, 10}, skill_shortage : {5, 10},
                 economic_uncertainty : {3, 7}]

\* "no call returned yet"
NoWeights == WeightConfig(0, 0, 0, 0, 0, 0, 0, 0)

WcInputs == [user_profile : WcProfiles, job_data : WcJobs, market_context : WcMarkets]

\* the calculator as constructed, and the arguments of the call to come
CalcInit ==
    /\ base_weights = InitBaseWeights
    /\ industry_weights = InitIndustryWeights
    /\ career_stage_adjustments = InitCareerStageAdjustments
    /\ market_conditions = InitMarketConditions
    /\ wcIn \in WcInputs
    /\ wcOut = NoWeights

\* weight_calculator.calculate_optimal_weights(user_profile, job_data, market_context)
CalculateOptimalWeights ==
    /\ wcOut = NoWeights
    /\ wcOut' = calculate_optimal_weights(wcIn.user_profile, wcIn.job_data,
                    wcIn.market_context, base_weights, industry_weights,
                    career_stage_adjustments, market_conditions)
    /\ UNCHANGED <<base_weights, industry_weights, career_stage_adjustments,
                   market_conditions, wcIn>>
    /\ UNCHANGED otherThanCalc

CalcIdle ==
    /\ base_weights = InitBaseWeights
    /\ industry_weights = InitIndustryWeights
    /\ career_stage_adjustments = InitCareerStageAdjustments
    /\ market_conditions = InitMarketConditions
    /\ wcIn = [none |-> TRUE]
    /\ wcOut = NoWeights

(***************************************************************************)
(* Preference learning: WeightUpdater (ml_preferences/services)            *)
(*                                                                         *)
(* Multipliers, importances, correlations and learning rates are fixed     *)
(* point numbers in units of 1/Milli; a product of two of them is rounded  *)
(* to the nearest unit, as a float product is rounded to the nearest       *)
(* representable value.                                                    *)
(***************************************************************************)
Milli == 1000

\* n / d rounded to the nearest integer (n >= 0, d > 0)
RoundDiv(n, d) == (2 * n + d) \div (2 * d)

RECURSIVE SumOver(_, _)
SumOver(f, S) ==
    IF S = {} THEN 0
    ELSE LET x == CHOOSE y \in S : TRUE IN f[x] + SumOver(f, S \ {x})

\* ml_preferences/config/settings.py
max_weight_adjustment == 2000

min_weight_adjustment == 100

weight_smoothing_factor == 100

new_user_default_boost == 1200

new_user_learning_rate == 300

new_user_min_feedback == 3

correlation_threshold == 300

correlation_min_rows == 5

Users == {1}

MultiplierFields ==
    {"skill_weight_adjustment", "location_weight_adjustment",
     "salary_weight_adjustment", "company_weight_adjustment",
     "job_type_weight_adjustment", "remote_preference_boost",
     "python_skill_boost", "startup_company_boost"}

\* a freshly created UserWeightAdjustments row
UserWeightAdjustments ==
    [skill_weight_adjustment |-> Milli, location_weight_adjustment |-> Milli,
     salary_weight_adjustment |-> Milli, company_weight_adjustment |-> Milli,
     job_type_weight_adjustment |-> Milli, remote_preference_boost |-> Milli,
     python_skill_boost |-> Milli, startup_company_boost |-> Milli,
     is_new_user |-> TRUE, feedback_count |-> 0, learning_rate |-> 300]

NoStats == [total_feedback |-> 0, positive_feedback |-> 0, negative_feedback |-> 0]

\* feature names of the trained model that the updater looks at
FeatureNames ==
    {"has_python", "has_react", "has_benefits", "is_remote", "is_office",
     "salary_range_avg", "is_startup", "is_full_time"}

\* f.startswith('has_')
StartsWithHas == {"has_python", "has_react", "has_benefits"}

location_features == {"is_remote", "is_hybrid", "is_office"}

salary_features == {"salary_range_low", "salary_range_high", "salary_range_avg"}

company_features == {"is_startup", "is_enterprise"}

job_type_features == {"is_full_time", "is_part_time", "is_contract", "is_freelance"}

\* sum(feature_importance.get(f, 0) for f in features)
ImportanceOf(feature_importance, features) ==
    SumOver(feature_importance, features \cap DOMAIN feature_importance)

\* _calculate_adjustment without the clamp to [min, max]
_calculate_adjustment_unclamped(importance) ==
    Milli + RoundDiv(importance * (max_weight_adjustment - Milli), Milli)

_calculate_adjustment(importance) ==
    LET adjustment == Milli + RoundDiv(importance * (max_weight_adjustment - Milli), Milli)
    IN  Max2(min_weight_adjustment, Min2(max_weight_adjustment, adjustment))

_calculate_adjustment_from_correlation(correlation) ==
    LET adjustment ==
            IF correlation > 0
            THEN Milli + RoundDiv(correlation * (max_weight_adjustment - Milli), Milli)
            ELSE Milli - RoundDiv((0 - correlation) * (Milli - min_weight_adjustment), Milli)
    IN  Max2(min_weight_adjustment, Min2(max_weight_adjustment, adjustment))

\* smoothing that forgets the neutral term 1.0 * smoothing_factor
_smooth_value_no_neutral(current_value, smoothing_factor) ==
    RoundDiv(current_value * (Milli - smoothing_factor), Milli)

_smooth_value(current_value, smoothing_factor) ==
    RoundDiv(current_value * (Milli - smoothing_factor) + Milli * smoothing_factor, Milli)

_apply_weight_smoothing(weight_adj) ==
    [f \in DOMAIN weight_adj |->
        IF f \in MultiplierFields
        THEN _smooth_value(weight_adj[f], weight_smoothing_factor)
        ELSE weight_adj[f]]

_update_learning_rate(weight_adj) ==
    [weight_adj EXCEPT !.learning_rate =
        IF weight_adj.feedback_count < 10 THEN 500
        ELSE IF weight_adj.feedback_count < 50 THEN 300 ELSE 100]

_update_new_user_weights(weight_adj, feedback_stats) ==
    LET total_feedback == feedback_stats.total_feedback
        positive_feedback == feedback_stats.positive_feedback
        negative_feedback == feedback_stats.negative_feedback
        step == RoundDiv((new_user_default_boost - Milli) * new_user_learning_rate, Milli)
        \* positive_ratio > 0.6, negative_ratio > 0.6
        likes == 10 * positive_feedback > 6 * total_feedback
        dislikes == 10 * negative_feedback > 6 * total_feedback
        adj == IF likes THEN Milli + step
               ELSE IF dislikes THEN Milli - step ELSE Milli
    IN  IF total_feedback < new_user_min_feedback THEN weight_adj
        ELSE [weight_adj EXCEPT !.skill_weight_adjustment = adj,
                                !.location_weight_adjustment = adj,
                                !.remote_preference_boost = new_user_default_boost,
                                !.python_skill_boost = new_user_default_boost,
                                !.startup_company_boost = new_user_default_boost]

_update_skill_weights(weight_adj, feature_importance) ==
    LET skill_features == StartsWithHas \cap DOMAIN feature_importance
        avg_skill_importance ==
            RoundDiv(SumOver(feature_importance, skill_features),
                     Cardinality(skill_features))
    IN  IF skill_features = {} THEN weight_adj
        ELSE [weight_adj EXCEPT
                !.skill_weight_adjustment = _calculate_adjustment(avg_skill_importance),
                !.python_skill_boost =
                    IF "has_python" \in DOMAIN feature_importance
                    THEN _calculate_adjustment(feature_importance["has_python"])
                    ELSE @]

_update_location_weights(weight_adj, feature_importance) ==
    LET location_importance == ImportanceOf(feature_importance, location_features)
    IN  IF location_importance > 0
        THEN [weight_adj EXCEPT
                !.location_weight_adjustment = _calculate_adjustment(location_importance),
                !.remote_preference_boost =
                    IF "is_remote" \in DOMAIN feature_importance
                    THEN _calculate_adjustment(feature_importance["is_remote"])
                    ELSE @]
        ELSE weight_adj

_update_salary_weights(weight_adj, feature_importance) ==
    LET salary_importance == ImportanceOf(feature_importance, salary_features)
    IN  IF salary_importance > 0
        THEN [weight_adj EXCEPT
                !.salary_weight_adjustment = _calculate_adjustment(salary_importance)]
        ELSE weight_adj

_update_company_weights(weight_adj, feature_importance) ==
    LET company_importance == ImportanceOf(feature_importance, company_features)
    IN  IF company_importance > 0
        THEN [weight_adj EXCEPT
                !.company_weight_adjustment = _calculate_adjustment(company_importance),
                !.startup_company_boost =
                    IF "is_startup" \in DOMAIN feature_importance
                    THEN _calculate_adjustment(feature_importance["is_startup"])
                    ELSE @]
        ELSE weight_adj

_update_job_type_weights(weight_adj, feature_importance) ==
    LET job_type_importance == ImportanceOf(feature_importance, job_type_features)
    IN  IF job_type_importance > 0
        THEN [weight_adj EXCEPT
                !.job_type_weight_adjustment = _calculate_adjustment(job_type_importance)]
        ELSE weight_adj

_update_ml_weights(weight_adj, feature_importance) ==
    _update_job_type_weights(
        _update_company_weights(
            _update_salary_weights(
                _update_location_weights(
                    _update_skill_weights(weight_adj, feature_importance),
                    feature_importance),
                feature_importance),
            feature_importance),
        feature_importance)

\* correlations: None for the empty dict, else a value per feature category
_update_fallback_weights(weight_adj, correlations) ==
    LET Applied(key, old) ==
            IF Abs(correlations[key]) > correlation_threshold
            THEN _calculate_adjustment_from_correlation(correlations[key])
            ELSE old
    IN  IF correlations = None THEN weight_adj
        ELSE [weight_adj EXCEPT
                !.skill_weight_adjustment = Applied("skill_correlation", @),
                !.location_weight_adjustment = Applied("location_correlation", @),
                !.salary_weight_adjustment = Applied("salary_correlation", @),
                !.company_weight_adjustment = Applied("company_correlation", @)]

\* body of update_user_weights after the two reads of the feedback table
update_user_weights(stored, is_new_user, feedback_stats, feature_importance, correlations) ==
    LET weight_adj == IF stored = None THEN UserWeightAdjustments ELSE stored
        counted == [weight_adj EXCEPT
                        !.feedback_count = feedback_stats.total_feedback,
                        !.is_new_user = is_new_user]
        updated == IF is_new_user
                   THEN _update_new_user_weights(counted, feedback_stats)
                   ELSE IF feature_importance # None
                   THEN _update_ml_weights(counted, feature_importance)
                   ELSE _update_fallback_weights(counted, correlations)
    IN  _update_learning_rate(_apply_weight_smoothing(updated))

reset_user_weights(stored) ==
    IF stored = None THEN stored
    ELSE [f \in DOMAIN stored |->
            IF f \in MultiplierFields THEN Milli
            ELSE IF f = "learning_rate" THEN 300 ELSE stored[f]]

\* bounds of the preference-learning runs
MaxFeedback == 5

MaxOps == 3

FeedbackKinds == {"relevant", "hidden", "maybe_later"}

\* feature importances (abs of the model coefficients), per feature
ImportanceValues ==
    {[f \in FeatureNames |-> 0],
     [has_python |-> 400, has_react |-> 200, has_benefits |-> 0,
      is_remote |-> 300, is_office |-> 0,
      salary_range_avg |-> 100, is_startup |-> 500, is_full_time |-> 0],
     [f \in FeatureNames |-> 1500]}

\* mean absolute correlation per feature category, each in [0, 1]
CorrelationValues ==
    {[skill_correlation |-> 0, location_correlation |-> 0,
      salary_correlation |-> 0, company_correlation |-> 0],
     [skill_correlation |-> 600, location_correlation |-> 200,
      salary_correlation |-> 1000, company_correlation |-> 400]}

\* calculate_feature_correlations: empty below five feedback rows
calculate_feature_correlations(stats) ==
    IF stats.total_feedback < correlation_min_rows
    THEN {None} ELSE CorrelationValues

MlInit ==
    /\ feedback = [u \in Users |-> NoStats]
    /\ weight_adjustments = [u \in Users |-> None]
    /\ upd_call = [u \in Users |-> None]
    /\ ml_ops = 0

MlIdle == MlInit

\* the job endpoints record one more feedback row of the user
RecordFeedback(u, kind) ==
    /\ feedback[u].total_feedback < MaxFeedback
    /\ feedback' = [feedback EXCEPT ![u] =
            [total_feedback |-> @.total_feedback + 1,
             positive_feedback |-> @.positive_feedback + (IF kind = "relevant" THEN 1 ELSE 0),
             negative_feedback |-> @.negative_feedback + (IF kind = "hidden" THEN 1 ELSE 0)]]
    /\ UNCHANGED <<weight_adjustments, upd_call, ml_ops>>
    /\ UNCHANGED otherThanMl

\* update_user_weights(user_id, feature_importance), first query:
\* data_collector.is_new_user(user_id)
UpdateUserWeightsBegin(u) ==
    /\ ml_ops < MaxOps
    /\ upd_call[u] = None
    /\ \E feature_importance \in {None} \cup ImportanceValues :
         upd_call' = [upd_call EXCEPT ![u] =
            [is_new_user |-> feedback[u].total_feedback < new_user_min_feedback,
             feature_importance |-> feature_importance]]
    /\ ml_ops' = ml_ops + 1
    /\ UNCHANGED <<feedback, weight_adjustments>>
    /\ UNCHANGED otherThanMl

\* update_user_weights, from the second query (get_user_feedback_stats) to commit
UpdateUserWeightsFinish(u) ==
    /\ upd_call[u] # None
    /\ \E correlations \in calculate_feature_correlations(feedback[u]) :
            weight_adjustments' = [weight_adjustments EXCEPT ![u] =
                update_user_weights(@, upd_call[u].is_new_user, feedback[u],
                                    upd_call[u].feature_importance, correlations)]
    /\ upd_call' = [upd_call EXCEPT ![u] = None]
    /\ UNCHANGED <<feedback, ml_ops>>
    /\ UNCHANGED otherThanMl

ResetUserWeights(u) ==
    /\ ml_ops < MaxOps
    /\ weight_adjustments' = [weight_adjustments EXCEPT ![u] = reset_user_weights(@)]
    /\ ml_ops' = ml_ops + 1
    /\ UNCHANGED <<feedback, upd_call>>
    /\ UNCHANGED otherThanMl

(***************************************************************************)
(* Component scorers of the recommendation system                          *)
(* (app/job_recommendation_system/services).                               *)
(*                                                                         *)
(* A score is an integer number of 1/ScoreUnit; a quotient is rounded to   *)
(* the nearest unit.  Strings are taken from finite universes: a skill     *)
(* name is a string with its lower(), strip() and standard form given by   *)
(* tables; a title is a sequence of lower-case words and "keyword in       *)
(* title" is containment of a contiguous run of words; a location is the   *)
(* sequence of its comma separated parts.                                  *)
(***************************************************************************)
ScoreUnit == 6000

\* x hundredths as a score
Pct(x) == (x * ScoreUnit) \div 100

\* str.lower() and str.strip() on the strings used

lower(s) ==
    CASE s = "Python" -> "python"
      [] s = "JavaScript" -> "javascript"
      [] s = "React" -> "react"
      [] s = "Machine Learning" -> "machine learning"
      [] s = "SQL" -> "sql"
      [] s = "AWS" -> "aws"
      [] s = "No" -> "no"
      [] s = "Yes" -> "yes"
      [] s = "Hybrid" -> "hybrid"
      [] s = "Active" -> "active"
      [] OTHER -> s

strip(s) == IF s = " python " THEN "python" ELSE s

\* SkillMatcher._standardize_skill_name
_standardize_skill_name(skill) ==
    CASE skill = "ml" -> "machine learning"
      [] skill = "ai" -> "artificial intelligence"
      [] skill = "js" -> "javascript"
      [] skill = "react.js" -> "react"
      [] skill = "reactjs" -> "react"
      [] skill = "node.js" -> "nodejs"
      [] skill = "nodejs" -> "node.js"
      [] skill = "aws cloud" -> "aws"
      [] skill = "amazon web services" -> "aws"
      [] skill = "google cloud" -> "gcp"
      [] skill = "google cloud platform" -> "gcp"
      [] skill = "microsoft azure" -> "azure"
      [] skill = "data sci" -> "data science"
      [] skill = "deep learning" -> "machine learning"
      [] skill = "statistical analysis" -> "statistics"
      [] skill = "statistical modeling" -> "statistics"
      [] OTHER -> skill

\* a list of skills is modelled by the set of its elements; the result is
\* list(set(normalized))
_normalize_skills(skills) ==
    {_standardize_skill_name(strip(lower(skill))) : skill \in skills \ {""}} \ {""}

\* OntologyService._initialize_skills_ontology: the nodes of the skills the
\* model uses (category, synonyms, related skills)
skills_graph ==
    [python |-> [category |-> "programming",
                 synonyms |-> {"py", "python3", "python2"},
                 related_skills |-> {"django", "flask", "pandas", "numpy", "scikit-learn"}],
     javascript |-> [category |-> "programming",
                 synonyms |-> {"js", "ecmascript", "nodejs"},
                 related_skills |-> {"react", "angular", "vue", "node.js", "express"}],
     java |-> [category |-> "programming",
                 synonyms |-> {"java8", "java11", "jdk"},
                 related_skills |-> {"spring", "spring boot", "hibernate", "maven", "gradle"}],
     react |-> [category |-> "web_frontend",
                 synonyms |-> {"reactjs", "react.js"},
                 related_skills |-> {"javascript", "jsx", "redux", "next.js"}],
     sql |-> [category |-> "databases",
                 synonyms |-> {"structured query language", "database"},
                 related_skills |-> {"mysql", "postgresql", "mongodb", "redis"}],
     mysql |-> [category |-> "databases",
                 synonyms |-> {"mysql database", "mysql server"},
                 related_skills |-> {"sql", "postgresql", "oracle", "database design",
                                     "indexing", "query optimization"}]]
    @@ ("node.js" :> [category |-> "web",
                 synonyms |-> {"nodejs", "node"},
                 related_skills |-> {"javascript", "express", "npm", "mongodb"}])
    @@ ("machine learning" :> [category |-> "ai_ml",
                 synonyms |-> {"ml", "ai", "artificial intelligence"},
                 related_skills |-> {"python", "pandas", "scikit-learn", "tensorflow",
                                     "pytorch"}])
    @@ ("aws" :> [category |-> "aws_services",
                 synonyms |-> {"amazon web services", "amazon cloud"},
                 related_skills |-> {"lambda", "ec2", "s3", "rds", "dynamodb",
                                     "cloudformation", "cloudwatch", "iam", "vpc",
                                     "route53", "sns", "sqs", "api gateway",
                                     "elastic beanstalk", "ecs", "eks", "fargate",
                                     "cloudfront", "sagemaker", "redshift",
                                     "elasticsearch", "kinesis", "step functions"}])

\* OntologyService._build_relationships: skill_relationships
skill_relationships(skill) ==
    {other \in DOMAIN skills_graph :
        \/ skill \in DOMAIN skills_graph /\ other \in skills_graph[skill].related_skills
        \/ skill \in skills_graph[other].related_skills}

\* OntologyService.get_skill_similarity: the arguments are compared as given,
\* then looked up and compared in lower case
get_skill_similarity(skill1, skill2) ==
    LET s1 == lower(skill1)
        s2 == lower(skill2)
    IN  IF skill1 = skill2 THEN Pct(100)
        ELSE IF s1 \notin DOMAIN skills_graph \/ s2 \notin DOMAIN skills_graph THEN 0
        ELSE IF s1 \in skills_graph[s2].synonyms
                \/ s2 \in skills_graph[s1].synonyms THEN Pct(90)
        ELSE IF s2 \in skills_graph[s1].related_skills
                \/ s1 \in skills_graph[s2].related_skills THEN Pct(70)
        ELSE IF skills_graph[s1].category = skills_graph[s2].category THEN Pct(50)
        ELSE IF s2 \in skill_relationships(s1) THEN Pct(60)
        ELSE 0

\* SkillGraph.get_transferability: similarity(skillA, skillB) of the skill
\* graph, in priority order exact 1.0, synonym 0.9, related 0.7, shared
\* category 0.5, otherwise 0.0
get_transferability(skill1, skill2) ==
    IF skill1 = skill2 THEN Pct(100)
    ELSE IF skill1 \notin DOMAIN skills_graph \/ skill2 \notin DOMAIN skills_graph THEN 0
    ELSE IF skill1 \in skills_graph[skill2].synonyms
            \/ skill2 \in skills_graph[skill1].synonyms THEN Pct(90)
    ELSE IF skill2 \in skills_graph[skill1].related_skills
            \/ skill1 \in skills_graph[skill2].related_skills THEN Pct(70)
    ELSE IF skills_graph[skill1].category = skills_graph[skill2].category THEN Pct(50)
    ELSE 0

\* Config (config/settings.py)
skill_weight == 30

experience_weight == 20

location_weight == 15

career_growth_weight == 10

salary_weight == 5

market_demand_weight == 10

culture_weight == 10

min_match_score == 60

min_confidence_score == 70

max_results == 20

skill_similarity_threshold == 80

transferable_skill_threshold == 60

experience_penalty_per_year == 15

over_experience_penalty == 5

remote_work_score == 100

same_location_score == 100

hybrid_work_score == 80

relocation_penalty == 30

senior_level_keywords == {"senior", "lead", "principal", "staff", "architect"}

junior_level_keywords == {"junior", "entry", "associate", "trainee", "intern"}

\* SkillEmbeddings: similarity (hundredths) of the resume text to each
\* required skill.  A resume text is [empty, similarity]: whether it is ""
\* and the similarity of its embedding to the skills it is close to
calculate_skill_similarity_batch(resume_text, required_skills) ==
    [skill \in required_skills |->
        IF skill \in DOMAIN resume_text.similarity
        THEN resume_text.similarity[skill] ELSE 0]

_find_exact_matches(candidate_skills, required_skills) ==
    candidate_skills \cap required_skills

_find_semantic_matches(candidate_skills, required_skills, resume_text) ==
    IF resume_text.empty THEN {}
    ELSE LET skill_similarities ==
                calculate_skill_similarity_batch(resume_text, required_skills)
         IN  {skill \in required_skills :
                skill_similarities[skill] > skill_similarity_threshold}

\* candidate_order: the order in which the candidate list is iterated; the
\* first candidate skill above the threshold decides the value
RECURSIVE FirstTransferable(_, _)
FirstTransferable(candidate_order, required_skill) ==
    IF candidate_order = <<>> THEN 0
    ELSE IF get_transferability(Head(candidate_order), required_skill)
                > Pct(transferable_skill_threshold)
         THEN get_transferability(Head(candidate_order), required_skill)
         ELSE FirstTransferable(Tail(candidate_order), required_skill)

_find_transferable_matches(candidate_order, required_skills) ==
    LET found == {r \in required_skills : FirstTransferable(candidate_order, r) > 0}
    IN  [r \in found |-> FirstTransferable(candidate_order, r)]

_find_preferred_matches(candidate_skills, preferred_skills) ==
    candidate_skills \cap preferred_skills

_calculate_exact_score(exact_matches, required_skills) ==
    IF required_skills = {} THEN 0
    ELSE RoundDiv(Cardinality(exact_matches) * ScoreUnit, Cardinality(required_skills))

_calculate_semantic_score(semantic_matches, required_skills) ==
    IF required_skills = {} THEN 0
    ELSE RoundDiv(Cardinality(semantic_matches) * ScoreUnit, Cardinality(required_skills))

_calculate_transferable_score(transferable_matches, required_skills) ==
    IF required_skills = {} THEN 0
    ELSE RoundDiv(SumOver(transferable_matches, DOMAIN transferable_matches),
                  Cardinality(required_skills))

_calculate_preferred_bonus(preferred_matches, preferred_skills) ==
    IF preferred_skills = {} THEN 0
    ELSE RoundDiv(Cardinality(preferred_matches) * ScoreUnit,
                  Cardinality(preferred_skills) * 10)

_calculate_final_score(exact_score, semantic_score, transferable_score, preferred_bonus) ==
    Min2(ScoreUnit,
         RoundDiv(exact_score * 6 + semantic_score * 3 + transferable_score, 10)
            + preferred_bonus)

_empty_skill_analysis(required_skills) ==
    [score |-> 0, exact_matches |-> {}, semantic_matches |-> {},
     transferable_matches |-> {}, preferred_matches |-> {},
     missing_skills |-> required_skills, required_skills |-> required_skills]

\* SkillMatcher.calculate_match; candidate_order enumerates the normalised
\* candidate skills
SkillMatcher_calculate_match(candidate_skills, required_skills, preferred_skills, resume_text, candidate_order) ==
    IF candidate_skills = {} \/ required_skills = {}
    THEN _empty_skill_analysis(required_skills)
    ELSE
      LET candidate_normalized == _normalize_skills(candidate_skills)
          required_normalized == _normalize_skills(required_skills)
          preferred_normalized == _normalize_skills(preferred_skills)
          exact_matches == _find_exact_matches(candidate_normalized, required_normalized)
          semantic_matches ==
              _find_semantic_matches(candidate_normalized, required_normalized, resume_text)
          transferable_matches ==
              _find_transferable_matches(candidate_order, required_normalized)
          preferred_matches ==
              _find_preferred_matches(candidate_normalized, preferred_normalized)
          final_score == _calculate_final_score(
              _calculate_exact_score(exact_matches, required_normalized),
              _calculate_semantic_score(semantic_matches, required_normalized),
              _calculate_transferable_score(transferable_matches, required_normalized),
              _calculate_preferred_bonus(preferred_matches, preferred_normalized))
          all_matches == exact_matches \cup semantic_matches \cup DOMAIN transferable_matches
      IN  [score |-> final_score, exact_matches |-> exact_matches,
           semantic_matches |-> semantic_matches,
           transferable_matches |-> DOMAIN transferable_matches,
           preferred_matches |-> preferred_matches,
           missing_skills |-> required_normalized \ all_matches,
           required_skills |-> required_normalized]

\* ExperienceMatcher.calculate_match
ExperienceMatcher_calculate_match(candidate_experience, min_required_experience, max_required_experience) ==
    IF min_required_experience <= candidate_experience
            /\ candidate_experience <= max_required_experience
    THEN ScoreUnit
    ELSE IF candidate_experience < min_required_experience
    THEN LET gap == min_required_experience - candidate_experience
             penalty == gap * Pct(experience_penalty_per_year)
         IN  Max2(0, ScoreUnit - penalty)
    ELSE LET excess == candidate_experience - max_required_experience
             penalty == excess * Pct(over_experience_penalty)
         IN  Max2(Pct(70), ScoreUnit - penalty)

\* a location string is the sequence of its comma separated parts, already
\* stripped and in lower case; "" is the empty sequence
_is_same_location(location1, location2) ==
    IF location1 = <<>> \/ location2 = <<>> THEN FALSE
    ELSE location1 = location2 \/ location1[1] = location2[1]

_extract_state(location) == IF Len(location) > 1 THEN location[2] ELSE ""

_extract_country(location) == IF Len(location) > 2 THEN location[3] ELSE ""

_calculate_proximity_score(location1, location2) ==
    IF location1 = <<>> \/ location2 = <<>> THEN 0
    ELSE IF _extract_state(location1) # "" /\ _extract_state(location2) # ""
            /\ _extract_state(location1) = _extract_state(location2)
    THEN Pct(60)
    ELSE IF _extract_country(location1) # "" /\ _extract_country(location2) # ""
            /\ _extract_country(location1) = _extract_country(location2)
    THEN Pct(40)
    ELSE Pct(20)

\* LocationMatcher.calculate_match
LocationMatcher_calculate_match(candidate_location, job_location, remote_work_allowed) ==
    IF lower(remote_work_allowed) \in {"yes", "remote", "fully remote"}
    THEN Pct(remote_work_score)
    ELSE IF _is_same_location(candidate_location, job_location)
    THEN Pct(same_location_score)
    ELSE IF lower(remote_work_allowed) \in {"hybrid", "partial remote"}
    THEN Pct(hybrid_work_score)
    ELSE Max2(Pct(relocation_penalty),
              _calculate_proximity_score(candidate_location, job_location))

\* SalaryAnalyzer.calculate_match; salaries are whole amounts, 0 is "not
\* given"; min filled in as 0.8 max, max as 1.2 min (tenths compared exactly)
SalaryAnalyzer_calculate_match(candidate_expectation, job_min_salary, job_max_salary) ==
    IF candidate_expectation = 0 \/ (job_min_salary = 0 /\ job_max_salary = 0)
    THEN ScoreUnit
    ELSE
      LET min10 == IF job_min_salary = 0 THEN job_max_salary * 8 ELSE job_min_salary * 10
          max10 == IF job_max_salary = 0 THEN (min10 * 12) \div 10 ELSE job_max_salary * 10
          exp10 == candidate_expectation * 10
      IN  IF min10 <= exp10 /\ exp10 <= max10 THEN ScoreUnit
          ELSE IF exp10 < min10 THEN ScoreUnit
          ELSE LET \* excess_ratio * 1.5
                   ratio15 == RoundDiv((exp10 - max10) * 15 * ScoreUnit, max10 * 10)
                   penalty == Min2(Pct(70), ratio15)
               IN  Max2(Pct(30), ScoreUnit - penalty)

\* "phrase in title": a contiguous run of the title's words (no word of the
\* titles and locations used is a substring of another)
Contains(title, phrase) ==
    \E i \in 1..(Len(title) - Len(phrase) + 1) :
        \A k \in 1..Len(phrase) : title[i + k - 1] = phrase[k]

ContainsAny(title, phrases) == \E phrase \in phrases : Contains(title, phrase)

ContainsWord(title, words) == \E w \in words : Contains(title, <<w>>)

\* CareerAnalyzer._load_career_paths (lower-cased targets)
career_paths ==
    [role \in {<<"data", "analyst">>, <<"junior", "developer">>,
               <<"software", "engineer">>, <<"data", "scientist">>,
               <<"product", "manager">>, <<"marketing", "specialist">>} |->
        CASE role = <<"data", "analyst">> ->
                {<<"senior", "data", "analyst">>, <<"data", "scientist">>,
                 <<"analytics", "manager">>}
          [] role = <<"junior", "developer">> ->
                {<<"senior", "developer">>, <<"tech", "lead">>,
                 <<"engineering", "manager">>}
          [] role = <<"software", "engineer">> ->
                {<<"senior", "engineer">>, <<"tech", "lead">>,
                 <<"engineering", "manager">>}
          [] role = <<"data", "scientist">> ->
                {<<"senior", "data", "scientist">>, <<"ml", "engineer">>,
                 <<"data", "science", "manager">>}
          [] role = <<"product", "manager">> ->
                {<<"senior", "product", "manager">>, <<"product", "director">>,
                 <<"vp", "product">>}
          [] OTHER ->
                {<<"marketing", "manager">>, <<"marketing", "director">>,
                 <<"vp", "marketing">>}]

progression_patterns ==
    {<<"junior", "senior">>, <<"associate", "senior">>, <<"analyst", "scientist">>,
     <<"developer", "engineer">>, <<"engineer", "lead">>, <<"lead", "manager">>,
     <<"manager", "director">>}

_check_career_progression(current_role, target_role) ==
    IF current_role \in DOMAIN career_paths
            /\ ContainsAny(target_role, career_paths[current_role])
    THEN Pct(90)
    ELSE IF \E pattern \in progression_patterns :
                Contains(current_role, <<pattern[1]>>) /\ Contains(target_role, <<pattern[2]>>)
    THEN Pct(80)
    ELSE IF current_role = target_role THEN Pct(60)
    ELSE Pct(40)

_infer_job_level(job_title, min_experience) ==
    IF ContainsWord(job_title, senior_level_keywords) THEN 2
    ELSE IF ContainsWord(job_title, junior_level_keywords) THEN 0
    ELSE IF min_experience >= 5 THEN 2
    ELSE IF min_experience >= 2 THEN 1
    ELSE 0

_check_level_appropriateness(candidate_level, job_title, min_experience) ==
    LET job_level == _infer_job_level(job_title, min_experience)
    IN  IF job_level = candidate_level + 1 THEN Pct(90)
        ELSE IF job_level = candidate_level THEN Pct(70)
        ELSE IF job_level = candidate_level - 1 THEN Pct(50)
        ELSE Pct(30)

_check_advancement_potential(candidate_experience, min_required, max_required) ==
    IF candidate_experience < min_required THEN Pct(90)
    ELSE IF candidate_experience <= max_required THEN Pct(80)
    ELSE Pct(60)

\* JobRecommendationSystem._infer_career_level
_infer_career_level(experience_years, current_role) ==
    IF ContainsWord(current_role, senior_level_keywords) THEN 2
    ELSE IF ContainsWord(current_role, junior_level_keywords) THEN 0
    ELSE IF experience_years < 2 THEN 0
    ELSE 1

\* CareerAnalyzer.calculate_growth_potential
calculate_growth_potential(current_role, career_level, experience_years, title, min_experience_years, max_experience_years) ==
    LET progression_score == _check_career_progression(current_role, title)
        level_score == _check_level_appropriateness(career_level, title, min_experience_years)
        advancement_score ==
            _check_advancement_potential(experience_years, min_experience_years,
                                         max_experience_years)
    IN  Min2(ScoreUnit,
             RoundDiv(progression_score * 4 + level_score * 3 + advancement_score * 3, 10))

\* MarketAnalyzer reference lists
high_demand_titles ==
    {<<"data", "scientist">>, <<"machine", "learning", "engineer">>,
     <<"software", "engineer">>, <<"full", "stack", "developer">>,
     <<"devops", "engineer">>, <<"product", "manager">>, <<"data", "engineer">>,
     <<"ml", "engineer">>, <<"ai", "engineer">>}

medium_demand_titles ==
    {<<"data", "analyst">>, <<"business", "analyst">>, <<"frontend", "developer">>,
     <<"backend", "developer">>, <<"qa", "engineer">>, <<"project", "manager">>,
     <<"marketing", "manager">>, <<"sales", "manager">>}

high_demand_locations ==
    {"san francisco", "new york", "seattle", "austin", "boston", "los angeles",
     "chicago", "denver"}

medium_demand_locations ==
    {"atlanta", "dallas", "phoenix", "miami", "philadelphia", "detroit",
     "minneapolis"}

high_demand_skills ==
    {"python", "machine learning", "javascript", "react", "aws", "docker",
     "kubernetes", "sql", "data science"}

medium_demand_skills ==
    {"java", "c++", "angular", "vue", "node.js", "mongodb", "postgresql", "git",
     "jenkins"}

_get_title_demand(job_title) ==
    IF ContainsAny(job_title, high_demand_titles) THEN Pct(90)
    ELSE IF ContainsAny(job_title, medium_demand_titles) THEN Pct(70)
    ELSE Pct(50)

_get_location_demand(location) ==
    IF location = <<>> THEN Pct(50)
    ELSE IF Range(location) \cap high_demand_locations # {} THEN Pct(90)
    ELSE IF Range(location) \cap medium_demand_locations # {} THEN Pct(70)
    ELSE Pct(50)

_get_skills_demand(skills) ==
    IF skills = {} THEN Pct(50)
    ELSE LET high_count == Cardinality({s \in skills : lower(s) \in high_demand_skills})
             medium_count == Cardinality({s \in skills : lower(s) \in medium_demand_skills})
             total_skills == Cardinality(skills)
         IN  Min2(ScoreUnit,
                  RoundDiv((high_count * 90 + medium_count * 70) * ScoreUnit,
                           total_skills * 100))

\* MarketAnalyzer.get_market_demand
get_market_demand(job_title, location, required_skills) ==
    Min2(ScoreUnit,
         RoundDiv(_get_title_demand(job_title) * 5 + _get_location_demand(location) * 3
                    + _get_skills_demand(required_skills) * 2, 10))

(***************************************************************************)
(* Scorers of JobMatcherService (app/services/job_matcher.py).             *)
(* Optional numbers are NoneNum when None.  A raised exception is the      *)
(* result Raised.                                                          *)
(***************************************************************************)
Raised == 0 - 2

\* _find_enhanced_skill_matches: the candidate skills matched by the job
\* skills; candidate_skills is the list that is iterated
_find_enhanced_skill_matches(candidate_skills, job_skills) ==
    LET Norm(s) == strip(lower(s))
        First(S) == CHOOSE j \in S : \A k \in S : j <= k
        sim(job_skill, j) == get_skill_similarity(Norm(job_skill), Norm(candidate_skills[j]))
        \* the first candidate with the highest similarity above 0.7
        Best(job_skill) ==
            {j \in DOMAIN candidate_skills :
                /\ sim(job_skill, j) > Pct(70)
                /\ \A k \in DOMAIN candidate_skills : sim(job_skill, k) <= sim(job_skill, j)}
        SameCategory(job_skill) ==
            {j \in DOMAIN candidate_skills :
                /\ Norm(job_skill) \in DOMAIN skills_graph
                /\ Norm(candidate_skills[j]) \in DOMAIN skills_graph
                /\ skills_graph[Norm(candidate_skills[j])].category
                        = skills_graph[Norm(job_skill)].category}
        Direct(job_skill) ==
            {j \in DOMAIN candidate_skills : Norm(candidate_skills[j]) = Norm(job_skill)}
        MatchOf(job_skill) ==
            IF Direct(job_skill) # {} THEN {candidate_skills[First(Direct(job_skill))]}
            ELSE IF Best(job_skill) # {} THEN {candidate_skills[First(Best(job_skill))]}
            ELSE IF SameCategory(job_skill) # {}
            THEN {candidate_skills[First(SameCategory(job_skill))]}
            ELSE {}
    IN  UNION {MatchOf(job_skill) : job_skill \in job_skills}

\* calculate_skill_match_score (use_enhanced_matching = True): the score;
\* candidate_order enumerates set(candidate_skills)
calculate_skill_match_score(candidate_order, required_skills, preferred_skills) ==
    IF candidate_order = <<>> \/ required_skills = {} THEN 0
    ELSE
      LET candidate_skills_lower ==
              [j \in DOMAIN candidate_order |-> lower(candidate_order[j])]
          required_matches ==
              _find_enhanced_skill_matches(candidate_skills_lower,
                                           {lower(s) : s \in required_skills})
          preferred_matches ==
              _find_enhanced_skill_matches(candidate_skills_lower,
                                           {lower(s) : s \in preferred_skills})
          required_match_ratio ==
              RoundDiv(Cardinality(required_matches) * ScoreUnit,
                       Cardinality(required_skills))
          preferred_match_ratio ==
              IF preferred_skills = {} THEN 0
              ELSE RoundDiv(Cardinality(preferred_matches) * ScoreUnit,
                            Cardinality(preferred_skills))
      IN  RoundDiv(required_match_ratio * 8 + preferred_match_ratio * 2, 10)

\* _calculate_enhanced_skill_match_score: the score, the matches and the
\* missing required skills; candidate_order enumerates set(candidate_skills)
_calculate_enhanced_skill_match_score(candidate_order, required_skills, preferred_skills) ==
    LET candidate_skills_lower ==
            [j \in DOMAIN candidate_order |-> lower(candidate_order[j])]
        required_skills_lower == {lower(s) : s \in required_skills}
        preferred_skills_lower == {lower(s) : s \in preferred_skills}
        required_matches ==
            _find_enhanced_skill_matches(candidate_skills_lower, required_skills_lower)
        preferred_matches ==
            _find_enhanced_skill_matches(candidate_skills_lower, preferred_skills_lower)
        missing_required ==
            {skill \in required_skills_lower :
                skill \notin {lower(match) : match \in required_matches}}
    IN  [skill_score |->
            calculate_skill_match_score(candidate_order, required_skills, preferred_skills),
         all_matches |-> required_matches \cup preferred_matches,
         missing_required |-> missing_required]

\* calculate_experience_match_score: the score (resume text gives no years)
calculate_experience_match_score(candidate_experience, min_experience, max_experience) ==
    IF candidate_experience = NoneNum THEN Pct(50)
    ELSE IF min_experience = NoneNum /\ max_experience = NoneNum THEN ScoreUnit
    ELSE IF min_experience # NoneNum /\ max_experience # NoneNum
    THEN IF min_experience <= candidate_experience /\ candidate_experience <= max_experience
         THEN ScoreUnit
         ELSE IF candidate_experience < min_experience
         THEN Max2(0, ScoreUnit - (min_experience - candidate_experience) * Pct(20))
         ELSE Max2(Pct(70), ScoreUnit - (candidate_experience - max_experience) * Pct(10))
    ELSE IF min_experience # NoneNum
    THEN IF candidate_experience >= min_experience THEN ScoreUnit
         ELSE Max2(0, ScoreUnit - (min_experience - candidate_experience) * Pct(20))
    ELSE ScoreUnit

\* calculate_location_match_score: the score
calculate_location_match_score(candidate_location, job_location, remote_allowed) ==
    IF candidate_location = <<>> \/ job_location = <<>> THEN Pct(50)
    ELSE IF lower(remote_allowed) \in {"yes", "fully remote", "remote"} THEN ScoreUnit
    ELSE IF candidate_location = job_location THEN ScoreUnit
    ELSE IF candidate_location[1] = job_location[1] THEN Pct(90)
    ELSE IF Len(candidate_location) > 1 /\ Len(job_location) > 1
            /\ candidate_location[2] = job_location[2] THEN Pct(60)
    ELSE IF lower(remote_allowed) \in {"hybrid", "partial remote"} THEN Pct(70)
    ELSE Pct(20)

\* variant: a missing expectation is compared with the salary range
calculate_salary_match_score_compares_none(candidate_expectation, job_min_salary, job_max_salary) ==
    IF job_min_salary = NoneNum /\ job_max_salary = NoneNum THEN ScoreUnit
    ELSE IF candidate_expectation = NoneNum THEN Raised
    ELSE IF job_min_salary # NoneNum /\ job_max_salary # NoneNum
    THEN IF candidate_expectation <= job_max_salary THEN ScoreUnit
         ELSE IF job_max_salary = 0 THEN Raised
         ELSE Max2(0, ScoreUnit
                        - RoundDiv((candidate_expectation - job_max_salary) * 2 * ScoreUnit,
                                   job_max_salary))
    ELSE ScoreUnit

\* calculate_salary_match_score: the score, or Raised for the
\* ZeroDivisionError of dividing by job_max_salary = 0
calculate_salary_match_score(candidate_expectation, job_min_salary, job_max_salary) ==
    IF candidate_expectation = NoneNum
            \/ (job_min_salary = NoneNum /\ job_max_salary = NoneNum)
    THEN ScoreUnit
    ELSE IF job_min_salary # NoneNum /\ job_max_salary # NoneNum
    THEN IF job_min_salary <= candidate_expectation
                /\ candidate_expectation <= job_max_salary THEN ScoreUnit
         ELSE IF candidate_expectation < job_min_salary THEN ScoreUnit
         \* division by job_max_salary = 0: ZeroDivisionError
         ELSE IF job_max_salary = 0 THEN Raised
         ELSE Max2(0, ScoreUnit
                        - RoundDiv((candidate_expectation - job_max_salary) * 2 * ScoreUnit,
                                   job_max_salary))
    ELSE ScoreUnit

(***************************************************************************)
(* Scorer calls: one scorer applied to one argument tuple                  *)
(***************************************************************************)
MaxSkills == 2

NotScored == 0 - 1

\* the enumerations of a set as a list
Orders(S) == {seq \in [1..Cardinality(S) -> S] : Range(seq) = S}

CandidateSkillPool == {"Python", " python ", "sql", "reactjs", "nodejs"}

JobSkillPool == {"python", "mysql", "react", "node.js", "cobol"}

PreferredSkillPool == {"react", "cobol"}

NoText == [empty |-> TRUE, similarity |-> [python |-> 0]]

ResumeTexts ==
    {NoText,
     [empty |-> FALSE, similarity |-> [python |-> 90, sql |-> 95, cobol |-> 81]]}

Titles ==
    {<<>>, <<"software", "engineer">>, <<"senior", "software", "engineer">>,
     <<"junior", "developer">>, <<"data", "analyst">>, <<"data", "scientist">>,
     <<"tech", "lead">>, <<"nurse">>}

Locations ==
    {<<>>, <<"austin", "tx", "usa">>, <<"austin">>, <<"dallas", "tx", "usa">>,
     <<"boston", "ma", "usa">>, <<"london", "england", "uk">>, <<"pune">>}

RemotePolicies == {"no", "No", "hybrid", "yes", "remote", "fully remote"}

Years == {0, 1, 2, 5, 8, 40}

\* salaries in thousands; 0 is "not given" for the recommendation system
Salaries == {0, 50, 80, 100, 150, 1000}

ExperienceRanges == {r \in Years \X Years : r[1] <= r[2]}

SalaryRanges == {r \in Salaries \X Salaries : r[1] <= r[2]}

ScorerCalls ==
    UNION {
      { [scorer |-> "skill", candidate_skills |-> c, required_skills |-> r,
         preferred_skills |-> p, resume_text |-> t, candidate_order |-> o] :
            r \in SubsetsUpTo(JobSkillPool, MaxSkills),
            p \in SubsetsUpTo(PreferredSkillPool, 1),
            t \in ResumeTexts, o \in Orders(_normalize_skills(c)) }
        : c \in SubsetsUpTo(CandidateSkillPool, MaxSkills) }
    \cup
    { [scorer |-> "experience", candidate_experience |-> y, range |-> r] :
        y \in Years, r \in ExperienceRanges }
    \cup
    { [scorer |-> "location", candidate_location |-> a, job_location |-> b,
       remote_work_allowed |-> p] :
        a \in Locations, b \in Locations, p \in RemotePolicies }
    \cup
    { [scorer |-> "salary", candidate_expectation |-> e, range |-> r] :
        e \in Salaries, r \in SalaryRanges }
    \cup
    { [scorer |-> "career_growth", current_role |-> a, title |-> b,
       experience_years |-> y, range |-> r] :
        a \in Titles, b \in Titles, y \in {0, 2, 8}, r \in {<<0, 2>>, <<2, 5>>, <<5, 8>>} }
    \cup
    { [scorer |-> "market_demand", title |-> b, location |-> l, required_skills |-> r] :
        b \in Titles, l \in Locations, r \in SubsetsUpTo(JobSkillPool, MaxSkills) }
    \cup
    UNION {
      { [scorer |-> "jm_skill", candidate_order |-> o, required_skills |-> r,
         preferred_skills |-> p] :
            o \in Orders(c), r \in SubsetsUpTo(JobSkillPool, MaxSkills),
            p \in SubsetsUpTo(PreferredSkillPool, 1) }
        : c \in SubsetsUpTo(CandidateSkillPool, MaxSkills) }
    \cup
    { [scorer |-> "jm_experience", candidate_experience |-> y, min_experience |-> a,
       max_experience |-> b] :
        y \in Years \cup {NoneNum}, a \in {NoneNum, 0, 2, 5}, b \in {NoneNum, 2, 5, 8} }
    \cup
    { [scorer |-> "jm_location", candidate_location |-> a, job_location |-> b,
       remote_allowed |-> p] :
        a \in Locations, b \in Locations, p \in RemotePolicies }
    \cup
    { [scorer |-> "jm_salary", candidate_expectation |-> e, job_min_salary |-> a,
       job_max_salary |-> b] :
        e \in Salaries \cup {NoneNum}, a \in {NoneNum, 0, 80}, b \in {NoneNum, 0, 100} }

NoCall == [scorer |-> "none"]

ScInit ==
    /\ scIn \in ScorerCalls
    /\ scOut = NotScored

ScIdle ==
    /\ scIn = NoCall
    /\ scOut = NotScored

Score(name, value) ==
    /\ scIn.scorer = name
    /\ scOut = NotScored
    /\ scOut' = value
    /\ UNCHANGED scIn
    /\ UNCHANGED otherThanSc

ScoreSkill ==
    /\ scIn.scorer = "skill"
    /\ Score("skill",
             SkillMatcher_calculate_match(scIn.candidate_skills, scIn.required_skills,
                 scIn.preferred_skills, scIn.resume_text, scIn.candidate_order).score)

ScoreExperience ==
    /\ scIn.scorer = "experience"
    /\ Score("experience",
             ExperienceMatcher_calculate_match(scIn.candidate_experience,
                 scIn.range[1], scIn.range[2]))

ScoreLocation ==
    /\ scIn.scorer = "location"
    /\ Score("location",
             LocationMatcher_calculate_match(scIn.candidate_location, scIn.job_location,
                 scIn.remote_work_allowed))

ScoreSalary ==
    /\ scIn.scorer = "salary"
    /\ Score("salary",
             SalaryAnalyzer_calculate_match(scIn.candidate_expectation,
                 scIn.range[1], scIn.range[2]))

ScoreCareerGrowth ==
    /\ scIn.scorer = "career_growth"
    /\ Score("career_growth",
             calculate_growth_potential(scIn.current_role,
                 _infer_career_level(scIn.experience_years, scIn.current_role),
                 scIn.experience_years, scIn.title, scIn.range[1], scIn.range[2]))

ScoreMarketDemand ==
    /\ scIn.scorer = "market_demand"
    /\ Score("market_demand",
             get_market_demand(scIn.title, scIn.location, scIn.required_skills))

ScoreJmSkill ==
    /\ scIn.scorer = "jm_skill"
    /\ Score("jm_skill",
             calculate_skill_match_score(scIn.candidate_order, scIn.required_skills,
                 scIn.preferred_skills))

ScoreJmExperience ==
    /\ scIn.scorer = "jm_experience"
    /\ Score("jm_experience",
             calculate_experience_match_score(scIn.candidate_experience,
                 scIn.min_experience, scIn.max_experience))

ScoreJmLocation ==
    /\ scIn.scorer = "jm_location"
    /\ Score("jm_location",
             calculate_location_match_score(scIn.candidate_location, scIn.job_location,
                 scIn.remote_allowed))

ScoreJmSalary ==
    /\ scIn.scorer = "jm_salary"
    /\ Score("jm_salary",
             calculate_salary_match_score(scIn.candidate_expectation,
                 scIn.job_min_salary, scIn.job_max_salary))

\* skill lists whose names are given in several spellings
CaseCandidatePool == {"python", "javascript", "sql"}

CaseJobPool == {"python", "java", "mysql"}

CaseCalls ==
    UNION {
      { [scorer |-> "skill", candidate_skills |-> c, required_skills |-> r,
         preferred_skills |-> p, resume_text |-> NoText, candidate_order |-> o] :
            r \in SubsetsUpTo(CaseJobPool, MaxSkills),
            p \in SubsetsUpTo(PreferredSkillPool, 1),
            o \in Orders(_normalize_skills(c)) }
        : c \in SubsetsUpTo(CaseCandidatePool, MaxSkills) }
    \cup
    UNION {
      { [scorer |-> "jm_skill", candidate_order |-> o, required_skills |-> r,
         preferred_skills |-> p] :
            o \in Orders(c), r \in SubsetsUpTo(CaseJobPool, MaxSkills),
            p \in SubsetsUpTo(PreferredSkillPool, 1) }
        : c \in SubsetsUpTo(CaseCandidatePool, MaxSkills) }

CaseInit ==
    /\ scIn \in CaseCalls
    /\ scOut = NotScored

\* the skill names given to the ontology: nodes of the graph, a capitalised
\* node name, listed synonyms and a name the graph does not know
OntologySkills ==
    {"python", "Python", "py", "java", "javascript", "js", "react", "sql", "mysql",
     "node.js", "machine learning", "ml", "rust"}

OntologyCalls ==
    { [scorer |-> "similarity", skill1 |-> a, skill2 |-> b] :
        a \in OntologySkills, b \in OntologySkills }

OntInit ==
    /\ scIn \in OntologyCalls
    /\ scOut = NotScored

GetSkillSimilarity ==
    /\ scIn.scorer = "similarity"
    /\ Score("similarity", get_skill_similarity(scIn.skill1, scIn.skill2))

(***************************************************************************)
(* Batch matching: JobRecommendationSystem.recommend_jobs (main.py) and    *)
(* JobMatcherService.match_candidate_to_jobs (job_matcher.py).             *)
(* An overall score of recommend_jobs is in units of 1/(100 * ScoreUnit);  *)
(* one of match_candidate_to_jobs is the exact fraction num/den.           *)
(***************************************************************************)
MaxJobs == 2

\* a location that is not a string (e.g. the number 123): .lower() on it
\* raises AttributeError
NonStringLocation == <<"<int>">>

\* an exception left the scoring of one job
Exception == [raised |-> TRUE]

\* what a batch call produced: nothing yet, a list, or an exception
NotCalled == [status |-> "pending", matches |-> <<>>]

Returned(matches) == [status |-> "returned", matches |-> matches]

Raises(error) == [status |-> error, matches |-> <<>>]

CandidateData ==
    {[id |-> 1, skills |-> {"Python"}, experience_years |-> 5,
      current_role |-> <<"product", "manager">>,
      location |-> <<"austin", "tx", "usa">>, salary_expectation |-> 100,
      resume_text |-> [empty |-> FALSE, similarity |-> [python |-> 90]],
      remote_preference |-> 5, salary_sensitivity |-> 5, career_growth_focus |-> 5],
     [id |-> 2, skills |-> {"reactjs", "sql"}, experience_years |-> 0,
      current_role |-> <<"junior", "developer">>,
      location |-> <<"dallas", "tx", "usa">>, salary_expectation |-> 0,
      resume_text |-> NoText,
      remote_preference |-> 8, salary_sensitivity |-> 8, career_growth_focus |-> 8],
     [id |-> 3, skills |-> {}, experience_years |-> NoneNum,
      current_role |-> <<>>, location |-> <<>>, salary_expectation |-> 50,
      resume_text |-> NoText,
      remote_preference |-> 5, salary_sensitivity |-> 5, career_growth_focus |-> 5],
     [id |-> 4, skills |-> {"Python"}, experience_years |-> 4,
      current_role |-> <<"product", "manager">>,
      location |-> <<"austin", "tx", "usa">>, salary_expectation |-> 110,
      resume_text |-> [empty |-> FALSE, similarity |-> [python |-> 90]],
      remote_preference |-> 5, salary_sensitivity |-> 5, career_growth_focus |-> 5]}

\* title and company_name stand for the job_title and company keys of the
\* recommendation systems and for the title and company_name attributes the
\* job matcher reads
JobData ==
    {[id |-> 1, title |-> <<"senior", "product", "manager">>, company_name |-> {"acme"},
      required_skills |-> {"python"}, preferred_skills |-> {"python"},
      min_experience_years |-> 5, max_experience_years |-> 8,
      location |-> <<"austin", "tx", "usa">>, remote_work_allowed |-> "no",
      min_salary |-> 80, max_salary |-> 100, status |-> "active",
      description_similarity |-> 100],
     [id |-> 2, title |-> <<"junior", "developer">>, company_name |-> {"startup"},
      required_skills |-> {"react", "mysql"}, preferred_skills |-> {"cobol"},
      min_experience_years |-> 0, max_experience_years |-> 2,
      location |-> <<"dallas", "tx", "usa">>, remote_work_allowed |-> "Hybrid",
      min_salary |-> 0, max_salary |-> 0, status |-> "Active",
      description_similarity |-> 50],
     [id |-> 3, title |-> <<"nurse">>, company_name |-> {"acme"},
      required_skills |-> {"cobol"}, preferred_skills |-> {},
      min_experience_years |-> 8, max_experience_years |-> 40,
      location |-> <<"london", "england", "uk">>, remote_work_allowed |-> "no",
      min_salary |-> 50, max_salary |-> 50, status |-> "active",
      description_similarity |-> 0],
     [id |-> 4, title |-> <<"senior", "product", "manager">>, company_name |-> {"acme"},
      required_skills |-> {"python"}, preferred_skills |-> {},
      min_experience_years |-> 5, max_experience_years |-> 8,
      location |-> <<"austin", "tx", "usa">>, remote_work_allowed |-> "no",
      min_salary |-> 80, max_salary |-> 100, status |-> "closed",
      description_similarity |-> 100],
     [id |-> 5, title |-> <<"software", "engineer">>, company_name |-> {"acme"},
      required_skills |-> {"python"}, preferred_skills |-> {},
      min_experience_years |-> 2, max_experience_years |-> 5,
      location |-> NonStringLocation, remote_work_allowed |-> "no",
      min_salary |-> 80, max_salary |-> 100, status |-> "active",
      description_similarity |-> 50],
     [id |-> 6, title |-> <<"data", "analyst">>, company_name |-> {"acme"},
      required_skills |-> {"sql"}, preferred_skills |-> {},
      min_experience_years |-> 5, max_experience_years |-> 2,
      location |-> <<"boston", "ma", "usa">>, remote_work_allowed |-> "yes",
      min_salary |-> 80, max_salary |-> 100, status |-> "active",
      description_similarity |-> 0],
     [id |-> 7, title |-> <<"software", "engineer">>, company_name |-> {"acme"},
      required_skills |-> {"python"}, preferred_skills |-> {},
      min_experience_years |-> 2, max_experience_years |-> 5,
      location |-> <<"austin", "tx", "usa">>, remote_work_allowed |-> "no",
      min_salary |-> 100, max_salary |-> 80, status |-> "active",
      description_similarity |-> 50]}

\* validate_candidate_data: the number checks (None is not a number)
validate_candidate_data(candidate_data) ==
    /\ candidate_data.experience_years # NoneNum
    /\ candidate_data.experience_years >= 0
    /\ candidate_data.salary_expectation >= 0
    /\ 0 <= candidate_data.remote_preference /\ candidate_data.remote_preference <= 10

\* validate_job_data: FALSE when it raises ValueError
validate_job_data(job_data) ==
    /\ job_data.title # <<>> /\ job_data.company_name # {}
    /\ job_data.min_experience_years >= 0 /\ job_data.max_experience_years >= 0
    /\ job_data.min_experience_years <= job_data.max_experience_years
    /\ job_data.min_salary >= 0 /\ job_data.max_salary >= 0
    /\ job_data.min_salary <= job_data.max_salary
    /\ lower(job_data.remote_work_allowed) \in {"no", "hybrid", "yes", "remote", "fully remote"}
    /\ lower(job_data.status) \in {"active", "closed", "draft", "expired"}

_is_job_active(job_data) == lower(job_data.status) = "active"

_calculate_overall_score(skill_score, experience_score, location_score, career_growth_score, salary_score, market_demand_score) ==
    skill_score * skill_weight + experience_score * experience_weight
    + location_score * location_weight + career_growth_score * career_growth_weight
    + salary_score * salary_weight + market_demand_score * market_demand_weight

\* the mean of the four confidence factors
_calculate_confidence_score(skill_analysis, experience_score, location_score, market_demand_score) ==
    RoundDiv(RoundDiv(Cardinality(skill_analysis.exact_matches) * ScoreUnit,
                      Max2(1, Cardinality(skill_analysis.required_skills)))
             + (IF experience_score > Pct(70) THEN ScoreUnit ELSE Pct(50))
             + location_score
             + (IF market_demand_score > Pct(70) THEN ScoreUnit ELSE Pct(70)),
             4)

\* _calculate_comprehensive_match: the JobMatch, or Exception when a scorer
\* raises (market_analyzer._get_location_demand calls location.lower())
_calculate_comprehensive_match(candidate_profile, job_posting, candidate_order) ==
    IF job_posting.location = NonStringLocation THEN Exception
    ELSE
      LET skill_analysis ==
              SkillMatcher_calculate_match(candidate_profile.skills,
                  job_posting.required_skills, job_posting.preferred_skills,
                  candidate_profile.resume_text, candidate_order)
          experience_match ==
              ExperienceMatcher_calculate_match(candidate_profile.experience_years,
                  job_posting.min_experience_years, job_posting.max_experience_years)
          location_match ==
              LocationMatcher_calculate_match(candidate_profile.location,
                  job_posting.location, job_posting.remote_work_allowed)
          career_growth ==
              calculate_growth_potential(candidate_profile.current_role,
                  candidate_profile.career_level, candidate_profile.experience_years,
                  job_posting.title, job_posting.min_experience_years,
                  job_posting.max_experience_years)
          salary_match ==
              SalaryAnalyzer_calculate_match(candidate_profile.salary_expectation,
                  job_posting.min_salary, job_posting.max_salary)
          market_demand ==
              get_market_demand(job_posting.title, job_posting.location,
                                job_posting.required_skills)
      IN  [job_id |-> job_posting.id,
           candidate_id |-> candidate_profile.id,
           match_score |-> _calculate_overall_score(skill_analysis.score,
                               experience_match, location_match, career_growth,
                               salary_match, market_demand),
           confidence_score |-> _calculate_confidence_score(skill_analysis,
                               experience_match, location_match, market_demand),
           skill_match_score |-> skill_analysis.score,
           experience_match_score |-> experience_match,
           location_match_score |-> location_match,
           career_growth_score |-> career_growth,
           salary_match_score |-> salary_match,
           skill_matches |-> skill_analysis.exact_matches,
           missing_skills |-> skill_analysis.missing_skills,
           transferable_skills |-> skill_analysis.transferable_matches,
           market_demand_score |-> market_demand]

_create_candidate_profile(candidate_data) ==
    [career_level |-> _infer_career_level(candidate_data.experience_years,
                                          candidate_data.current_role)] @@ candidate_data

\* list.sort(key=score, reverse=True): stable, GT(a, b) is "a scores above b"
SortDescending(matches, GT(_, _)) ==
    LET n == Len(matches)
        rank(i) == 1 + Cardinality({j \in 1..n :
                        \/ GT(matches[j], matches[i])
                        \/ (~GT(matches[i], matches[j]) /\ j < i)})
    IN  [k \in 1..n |-> matches[CHOOSE i \in 1..n : rank(i) = k]]

ByMatchScore(a, b) == a.match_score > b.match_score

\* _generate_matches: no handler around the per-job call, an exception of
\* _calculate_comprehensive_match leaves the loop
_generate_matches(candidate_profile, jobs_data, candidate_order) ==
    LET active == SelectSeq(jobs_data, _is_job_active)
        all == [i \in 1..Len(active) |->
                    _calculate_comprehensive_match(candidate_profile, active[i],
                                                   candidate_order)]
        MeetsThreshold(match) == match.match_score >= min_match_score * ScoreUnit
    IN  IF \E i \in 1..Len(active) : all[i] = Exception
        THEN Raises("AttributeError")
        ELSE Returned(SelectSeq(all, MeetsThreshold))

_apply_enhancements(matches) ==
    LET Confident(m) == m.confidence_score >= Pct(min_confidence_score)
    IN  SelectSeq(SortDescending(matches, ByMatchScore), Confident)

_sort_and_limit_matches(matches) ==
    SubSeq(SortDescending(matches, ByMatchScore), 1, Min2(max_results, Len(matches)))

\* recommend_jobs: the list returned, or the exception it re-raises
recommend_jobs(candidate_data, jobs_data, candidate_order) ==
    IF ~validate_candidate_data(candidate_data)
            \/ \E i \in 1..Len(jobs_data) : ~validate_job_data(jobs_data[i])
    THEN Raises("ValueError")
    ELSE LET generated == _generate_matches(_create_candidate_profile(candidate_data),
                                            jobs_data, candidate_order)
         IN  IF generated.status # "returned" THEN generated
             ELSE Returned(_sort_and_limit_matches(_apply_enhancements(generated.matches)))

\* a/b compared with c/d (b, d > 0; a, c >= 0) without forming a*d: -1, 0, 1
RECURSIVE CompareFractions(_, _, _, _)
CompareFractions(a, b, c, d) ==
    IF a \div b # c \div d THEN (IF a \div b < c \div d THEN 0 - 1 ELSE 1)
    ELSE IF a % b = 0 /\ c % d = 0 THEN 0
    ELSE IF a % b = 0 THEN 0 - 1
    ELSE IF c % d = 0 THEN 1
    ELSE CompareFractions(d, c % d, b, a % b)

ByMatchFraction(a, b) ==
    CompareFractions(a.match_score.num, a.match_score.den,
                     b.match_score.num, b.match_score.den) = 1

\* sub-scores enter the weighted sum in units of JmScale / ScoreUnit (every
\* sub-score of the candidates and jobs used is a multiple of that)
JmScale == 20

\* one iteration of the loop of match_candidate_to_jobs: the JobMatch, or
\* Exception when a scorer raises (the handler then skips the job)
match_candidate_to_job(candidate_data, job, candidate_order, base, indTable, adjTable, defaultMarket) ==
    LET skill_score ==
            calculate_skill_match_score(candidate_order, job.required_skills,
                                        job.preferred_skills)
        experience_score ==
            calculate_experience_match_score(candidate_data.experience_years,
                job.min_experience_years, job.max_experience_years)
        \* job.get('location').lower() is reached unless an early return
        location_raises ==
            /\ job.location = NonStringLocation
            /\ candidate_data.location # <<>>
            /\ lower(job.remote_work_allowed) \notin {"yes", "fully remote", "remote"}
        location_score ==
            calculate_location_match_score(candidate_data.location, job.location,
                                           job.remote_work_allowed)
        salary_score ==
            calculate_salary_match_score(candidate_data.salary_expectation,
                                         job.min_salary, job.max_salary)
        \* calculate_semantic_similarity_enhanced: 0.0 without a resume text
        semantic_score ==
            IF candidate_data.resume_text.empty THEN 0
            ELSE Pct(job.description_similarity)
        dynamic_weights ==
            calculate_optimal_weights(candidate_data,
                [title |-> Range(job.title), company_name |-> job.company_name,
                 description |-> {}],
                None, base, indTable, adjTable, defaultMarket)
        S(x) == x \div JmScale
    IN  IF location_raises \/ salary_score = Raised THEN Exception
        ELSE [job_id |-> job.id,
              match_score |->
                [num |-> S(skill_score) * dynamic_weights.skill_weight
                         + S(experience_score) * dynamic_weights.experience_weight
                         + S(location_score) * dynamic_weights.location_weight
                         + S(semantic_score) * dynamic_weights.semantic_weight
                         + S(salary_score) * dynamic_weights.salary_weight
                         + S(Pct(50)) * dynamic_weights.market_demand_weight
                         + S(Pct(50)) * dynamic_weights.career_growth_weight,
                 den |-> S(ScoreUnit) * dynamic_weights.unit],
              sub_scores |-> {skill_score, experience_score, location_score,
                              semantic_score, salary_score}]

\* match_candidate_to_jobs: jobs that are not active or whose scoring raised
\* are skipped
match_candidate_to_jobs(candidate_data, jobs, top_k, candidate_order, base, indTable, adjTable, defaultMarket) ==
    LET active == SelectSeq(jobs, _is_job_active)
        all == [i \in 1..Len(active) |->
                    match_candidate_to_job(candidate_data, active[i], candidate_order,
                                           base, indTable, adjTable, defaultMarket)]
        Scored(m) == m # Exception
        matches == SortDescending(SelectSeq(all, Scored), ByMatchFraction)
    IN  SubSeq(matches, 1, Min2(top_k, Len(matches)))

(***************************************************************************)
(* Batch calls: one candidate, a list of jobs, and the two entry points    *)
(* applied to them                                                         *)
(***************************************************************************)
RECURSIVE SeqsUpTo(_, _)
SeqsUpTo(S, n) ==
    IF n = 0 THEN {<<>>}
    ELSE SeqsUpTo(S, n - 1)
            \cup {Append(s, x) : s \in {t \in SeqsUpTo(S, n - 1) : Len(t) = n - 1}, x \in S}

TopKs == {1, 10}

BatchCalls ==
    [candidate_data : CandidateData,
     jobs_data : SeqsUpTo(JobData, MaxJobs),
     top_k : TopKs]

BatchInit ==
    /\ batIn \in BatchCalls
    /\ rjOut = NotCalled
    /\ mcOut = NotCalled

BatchIdle ==
    /\ batIn = [candidate_data |-> None, jobs_data |-> <<>>, top_k |-> 0]
    /\ rjOut = NotCalled
    /\ mcOut = NotCalled

\* recommendation_system.recommend_jobs(candidate_data, jobs_data)
RecommendJobs ==
    /\ rjOut = NotCalled
    /\ \E candidate_order \in
            Orders(IF validate_candidate_data(batIn.candidate_data)
                   THEN _normalize_skills(batIn.candidate_data.skills) ELSE {}) :
         rjOut' = recommend_jobs(batIn.candidate_data, batIn.jobs_data, candidate_order)
    /\ UNCHANGED <<batIn, mcOut>>
    /\ UNCHANGED otherThanBatch

\* job_matcher.match_candidate_to_jobs(candidate_data, jobs, top_k)
MatchCandidateToJobs ==
    /\ mcOut = NotCalled
    /\ \E candidate_order \in Orders(batIn.candidate_data.skills) :
         mcOut' = Returned(match_candidate_to_jobs(batIn.candidate_data,
                      batIn.jobs_data, batIn.top_k, candidate_order, base_weights,
                      industry_weights, career_stage_adjustments, market_conditions))
    /\ UNCHANGED <<batIn, rjOut>>
    /\ UNCHANGED otherThanBatch

(***************************************************************************)
(* The accuracy scenarios of run_recommendation_tests.py: one candidate    *)
(* matched with one job by match_candidate_to_jobs.  The scenario job has  *)
(* no title and a description whose keywords select the technology         *)
(* weights, which are also the weights of a job without keywords.          *)
(***************************************************************************)
ScenarioCandidate(skills, years, location, salary) ==
    [id |-> 1, skills |-> skills, experience_years |-> years, current_role |-> <<>>,
     location |-> location, salary_expectation |-> salary, resume_text |-> NoText,
     remote_preference |-> 5, salary_sensitivity |-> 5, career_growth_focus |-> 5]

\* candidate_poor and candidate_no_skills, and variants of candidate_poor
ScenarioCandidates ==
    { ScenarioCandidate(skills, 1, <<"new york", "ny">>, salary) :
        skills \in {{"JavaScript", "React"}, {"JavaScript"}, {"React"}},
        salary \in {50, 100} }
    \cup {ScenarioCandidate({}, 0, <<>>, NoneNum)}

\* job_perfect and variants of it
ScenarioJobs ==
    { [id |-> 8, title |-> <<>>, company_name |-> {},
       required_skills |-> required, preferred_skills |-> preferred,
       min_experience_years |-> 3, max_experience_years |-> max,
       location |-> <<"san francisco", "ca">>, remote_work_allowed |-> "no",
       min_salary |-> 90, max_salary |-> 110, status |-> "active",
       description_similarity |-> 0] :
        required \in {{"Python", "Machine Learning", "SQL"}, {"Machine Learning", "SQL"},
                      {"Python"}},
        preferred \in {{}, {"AWS"}},
        max \in {5, 6} }

ScenarioCalls ==
    [candidate_data : ScenarioCandidates,
     jobs_data : {<<job>> : job \in ScenarioJobs \cup JobData},
     top_k : {10}]

ScenarioInit ==
    /\ batIn \in ScenarioCalls
    /\ rjOut = NotCalled
    /\ mcOut = NotCalled

(***************************************************************************)
(* FastJobRecommendationSystem (fast_recommendation_system.py) over the    *)
(* index of VectorizationService (services/vectorizer.py).  JobVectorDB    *)
(* and MatchResult (models/database.py), JobMatch (models/match.py) and    *)
(* SkillEmbeddings (data/embeddings.py) are not among the sources: the     *)
(* store keeps one JobVector per job id and one ResumeVector per candidate *)
(* id, and a cached MatchResult per (candidate id, job id) that lives      *)
(* until its TTL ends or until the job posting or the candidate profile    *)
(* changes.                                                                *)
(***************************************************************************)
MaxPosts == 2

MaxUploads == 2

MaxRequests == 2

JobWithId(i) == CHOOSE job_data \in JobData : job_data.id = i

CandidateWithId(i) == CHOOSE candidate_data \in CandidateData : candidate_data.id = i

\* the job postings submitted: job id 1 is posted, edited and closed, job id 2
\* is posted with a text and with a number as its location, job 6 is invalid
Postings ==
    {JobWithId(1), [JobWithId(3) EXCEPT !.id = 1], [JobWithId(4) EXCEPT !.id = 1],
     JobWithId(2), [JobWithId(5) EXCEPT !.id = 2], JobWithId(6)}

\* the resumes submitted: candidate 1 uploads two versions, the resume of
\* candidate 3 is invalid
Resumes ==
    {CandidateWithId(1), [CandidateWithId(4) EXCEPT !.id = 1], CandidateWithId(3)}

JobIds == {1, 2}

CandidateIds == {1}

Limits == {1, 2}

\* SkillEmbeddings.get_text_embedding: an embedding is a number, the inner
\* product of a resume and a job embedding is their product (hundredths)
get_text_embedding(data, data_type) ==
    IF data_type = "job" THEN data.description_similarity
    ELSE IF data.resume_text.empty THEN 50 ELSE 100

InnerProduct(query_embedding, embedding) == (query_embedding * embedding) \div 100

\* vectorize_job_description: the JobVector (the entry added to the index is
\* part of PostJob)
vectorize_job_description(job_data) ==
    [job_id |-> job_data.id, title |-> job_data.title,
     company |-> job_data.company_name, location |-> job_data.location,
     description_embedding |-> get_text_embedding(job_data, "job"),
     required_skills |-> job_data.required_skills,
     preferred_skills |-> job_data.preferred_skills,
     min_experience_years |-> job_data.min_experience_years,
     max_experience_years |-> job_data.max_experience_years,
     min_salary |-> job_data.min_salary, max_salary |-> job_data.max_salary,
     remote_work_allowed |-> job_data.remote_work_allowed,
     status |-> job_data.status]

\* vectorize_resume: the ResumeVector
vectorize_resume(candidate_data) ==
    [candidate_id |-> candidate_data.id,
     resume_embedding |-> get_text_embedding(candidate_data, "resume"),
     skills |-> candidate_data.skills,
     experience_years |-> candidate_data.experience_years,
     current_role |-> candidate_data.current_role,
     location |-> candidate_data.location,
     salary_expectation |-> candidate_data.salary_expectation,
     remote_preference |-> candidate_data.remote_preference]

\* _add_to_job_index: one more vector in the index, one more id in job_ids
_add_to_job_index(index, job_vector) ==
    Append(index, [job_id |-> job_vector.job_id,
                   embedding |-> job_vector.description_embedding])

_add_to_resume_index(index, resume_vector) ==
    Append(index, [candidate_id |-> resume_vector.candidate_id,
                   embedding |-> resume_vector.resume_embedding])

BySimilarity(a, b) == a.similarity_score > b.similarity_score

\* search_similar_jobs_faiss: the (job_id, similarity) pairs of the
\* min(limit, len(job_ids)) nearest index entries
search_similar_jobs_faiss(index, query_embedding, limit) ==
    LET results == [i \in DOMAIN index |->
                        [job_id |-> index[i].job_id,
                         similarity_score |->
                            InnerProduct(query_embedding, index[i].embedding)]]
    IN  SubSeq(SortDescending(results, BySimilarity), 1, Min2(limit, Len(index)))

\* JobVectorDB.store_job variant: cached matches are kept
store_job_keeps_matches(jobs, matches, job_vector) ==
    [jobs |-> [jobs EXCEPT ![job_vector.job_id] = job_vector],
     matches |-> matches]

\* JobVectorDB.store_job: the posting replaces the one stored under its id;
\* a change of the posting invalidates the cached matches of the job
store_job(jobs, matches, job_vector) ==
    [jobs |-> [jobs EXCEPT ![job_vector.job_id] = job_vector],
     matches |-> [key \in DOMAIN matches |->
                    IF key[2] = job_vector.job_id /\ jobs[job_vector.job_id] # job_vector
                    THEN None ELSE matches[key]]]

\* JobVectorDB.store_resume: likewise for a candidate profile
store_resume(resumes, matches, resume_vector) ==
    [resumes |-> [resumes EXCEPT ![resume_vector.candidate_id] = resume_vector],
     matches |-> [key \in DOMAIN matches |->
                    IF key[1] = resume_vector.candidate_id
                        /\ resumes[resume_vector.candidate_id] # resume_vector
                    THEN None ELSE matches[key]]]

\* _calculate_detailed_match: the JobMatch, or None when a scorer raises
\* (location.lower() on a location that is not a string).  from_cache, job
\* and computed_from are not fields of JobMatch: they record how the match
\* was produced
_calculate_detailed_match(resume_vector, job_vector, similarity_score, candidate_order) ==
    IF job_vector.location = NonStringLocation THEN None
    ELSE
      LET skill_analysis ==
              SkillMatcher_calculate_match(resume_vector.skills,
                  job_vector.required_skills, job_vector.preferred_skills,
                  NoText, candidate_order)
          experience_match ==
              ExperienceMatcher_calculate_match(resume_vector.experience_years,
                  job_vector.min_experience_years, job_vector.max_experience_years)
          location_match ==
              LocationMatcher_calculate_match(resume_vector.location,
                  job_vector.location, job_vector.remote_work_allowed)
          \* _resume_to_profile: career_level = 1
          career_growth ==
              calculate_growth_potential(resume_vector.current_role, 1,
                  resume_vector.experience_years, job_vector.title,
                  job_vector.min_experience_years, job_vector.max_experience_years)
          salary_match ==
              SalaryAnalyzer_calculate_match(resume_vector.salary_expectation,
                  job_vector.min_salary, job_vector.max_salary)
          market_demand ==
              get_market_demand(job_vector.title, job_vector.location,
                                job_vector.required_skills)
      IN  [job_id |-> job_vector.job_id,
           candidate_id |-> resume_vector.candidate_id,
           match_score |-> _calculate_overall_score(skill_analysis.score,
                               experience_match, location_match, career_growth,
                               salary_match, market_demand),
           confidence_score |-> Pct(similarity_score),
           skill_match_score |-> skill_analysis.score,
           experience_match_score |-> experience_match,
           location_match_score |-> location_match,
           career_growth_score |-> career_growth,
           salary_match_score |-> salary_match,
           skill_matches |-> skill_analysis.exact_matches,
           missing_skills |-> skill_analysis.missing_skills,
           transferable_skills |-> skill_analysis.transferable_matches,
           market_demand_score |-> market_demand,
           from_cache |-> FALSE, job |-> job_vector,
           computed_from |-> [job |-> job_vector, resume |-> resume_vector]]

\* _create_job_match_from_cache: the fields not passed keep the defaults of
\* JobMatch (empty lists, 0.0)
_create_job_match_from_cache(cached_match, job_vector) ==
    [job_id |-> job_vector.job_id,
     candidate_id |-> cached_match.candidate_id,
     match_score |-> cached_match.overall_score,
     confidence_score |-> Pct(80),
     skill_match_score |-> cached_match.skill_score,
     experience_match_score |-> cached_match.experience_score,
     location_match_score |-> cached_match.location_score,
     career_growth_score |-> cached_match.career_growth_score,
     salary_match_score |-> cached_match.salary_score,
     skill_matches |-> {}, missing_skills |-> {}, transferable_skills |-> {},
     market_demand_score |-> 0,
     from_cache |-> TRUE, job |-> job_vector,
     computed_from |-> cached_match.computed_from]

\* _cache_match_result: the MatchResult stored
_cache_match_result(candidate_id, job_id, job_match) ==
    [candidate_id |-> candidate_id, job_id |-> job_id,
     overall_score |-> job_match.match_score,
     skill_score |-> job_match.skill_match_score,
     experience_score |-> job_match.experience_match_score,
     location_score |-> job_match.location_match_score,
     career_growth_score |-> job_match.career_growth_score,
     salary_score |-> job_match.salary_match_score,
     computed_from |-> job_match.computed_from]

\* the element of a set of one element
TheOne(S) == CHOOSE x \in S : TRUE

\* the loop of get_job_recommendations over similar_jobs: the matches
\* appended and the cached matches after it
RECURSIVE MatchSimilarJobs(_, _, _, _, _, _)
MatchSimilarJobs(similar_jobs, candidate_id, resume_vector, candidate_order, matches, cache) ==
    IF similar_jobs = <<>> THEN [matches |-> matches, cache |-> cache]
    ELSE
      LET job_vector == Head(similar_jobs).job_vector
          key == <<candidate_id, job_vector.job_id>>
          cached_match == cache[key]
      IN  IF cached_match # None
          THEN MatchSimilarJobs(Tail(similar_jobs), candidate_id, resume_vector,
                   candidate_order,
                   Append(matches, _create_job_match_from_cache(cached_match, job_vector)),
                   cache)
          ELSE TheOne({
                 MatchSimilarJobs(Tail(similar_jobs), candidate_id, resume_vector,
                     candidate_order,
                     IF job_match = None THEN matches ELSE Append(matches, job_match),
                     IF job_match = None THEN cache
                     ELSE [cache EXCEPT ![key] =
                              _cache_match_result(candidate_id, job_vector.job_id,
                                                  job_match)]) :
                 job_match \in {_calculate_detailed_match(resume_vector, job_vector,
                                    Head(similar_jobs).similarity_score, candidate_order)} })

\* get_job_recommendations: the list returned and the cached matches after
\* the call
get_job_recommendations(candidate_id, limit, jobs, resumes, cache, index, candidate_order) ==
    LET resume_vector == resumes[candidate_id]
        similar_job_ids ==
            search_similar_jobs_faiss(index, resume_vector.resume_embedding, limit * 2)
        Stored(result) == jobs[result.job_id] # None
        similar_jobs == [i \in DOMAIN SelectSeq(similar_job_ids, Stored) |->
                            [job_vector |->
                                jobs[SelectSeq(similar_job_ids, Stored)[i].job_id],
                             similarity_score |->
                                SelectSeq(similar_job_ids, Stored)[i].similarity_score]]
    IN  IF resume_vector = None THEN [matches |-> <<>>, cache |-> cache]
        ELSE TheOne({
               [matches |-> SubSeq(SortDescending(done.matches, ByMatchScore), 1,
                                   Min2(limit, Len(done.matches))),
                cache |-> done.cache] :
               done \in {MatchSimilarJobs(similar_jobs, candidate_id, resume_vector,
                                          candidate_order, <<>>, cache)} })

NoResponse == [candidate_id |-> 0, limit |-> 0, matches |-> <<>>, resume |-> None,
               undisturbed |-> FALSE]

FastInit ==
    /\ db_jobs = [job_id \in JobIds |-> None]
    /\ db_resumes = [candidate_id \in CandidateIds |-> None]
    /\ db_matches = [key \in CandidateIds \X JobIds |-> None]
    /\ job_index = <<>>
    /\ resume_index = <<>>
    /\ fastOut = NoResponse
    /\ prevOut = NoResponse
    /\ undisturbed = FALSE
    /\ requests = 0

FastIdle == FastInit

\* fast_system.post_job(job_data): validate, vectorize (the index grows),
\* store; a ValueError of the validation leaves everything as it was
PostJob(job_data) ==
    /\ Len(job_index) < MaxPosts
    /\ IF validate_job_data(job_data)
       THEN LET job_vector == vectorize_job_description(job_data)
                stored == store_job(db_jobs, db_matches, job_vector)
            IN  /\ job_index' = _add_to_job_index(job_index, job_vector)
                /\ db_jobs' = stored.jobs
                /\ db_matches' = stored.matches
                /\ undisturbed' = FALSE
       ELSE UNCHANGED <<job_index, db_jobs, db_matches, undisturbed>>
    /\ UNCHANGED <<db_resumes, resume_index, fastOut, prevOut, requests>>
    /\ UNCHANGED otherThanFast

\* fast_system.upload_resume(candidate_data)
UploadResume(candidate_data) ==
    /\ Len(resume_index) < MaxUploads
    /\ IF validate_candidate_data(candidate_data)
       THEN LET resume_vector == vectorize_resume(candidate_data)
                stored == store_resume(db_resumes, db_matches, resume_vector)
            IN  /\ resume_index' = _add_to_resume_index(resume_index, resume_vector)
                /\ db_resumes' = stored.resumes
                /\ db_matches' = stored.matches
                /\ undisturbed' = FALSE
       ELSE UNCHANGED <<resume_index, db_resumes, db_matches, undisturbed>>
    /\ UNCHANGED <<db_jobs, job_index, fastOut, prevOut, requests>>
    /\ UNCHANGED otherThanFast

\* fast_system.get_job_recommendations(candidate_id, limit)
GetJobRecommendations(candidate_id, limit) ==
    /\ requests < MaxRequests
    /\ requests' = requests + 1
    /\ \E candidate_order \in
            Orders(IF db_resumes[candidate_id] = None THEN {}
                   ELSE _normalize_skills(db_resumes[candidate_id].skills)) :
         \E done \in {get_job_recommendations(candidate_id, limit, db_jobs,
                         db_resumes, db_matches, job_index, candidate_order)} :
             /\ fastOut' = [candidate_id |-> candidate_id, limit |-> limit,
                            matches |-> done.matches,
                            resume |-> db_resumes[candidate_id],
                            undisturbed |-> undisturbed]
             /\ db_matches' = done.cache
    /\ prevOut' = fastOut
    /\ undisturbed' = TRUE
    /\ UNCHANGED <<db_jobs, db_resumes, job_index, resume_index>>
    /\ UNCHANGED otherThanFast

\* the TTL of a cached match ends
ExpireMatch(candidate_id, job_id) ==
    /\ db_matches[<<candidate_id, job_id>>] # None
    /\ db_matches' = [db_matches EXCEPT ![<<candidate_id, job_id>>] = None]
    /\ undisturbed' = FALSE
    /\ UNCHANGED <<db_jobs, db_resumes, job_index, resume_index, fastOut, prevOut,
                   requests>>
    /\ UNCHANGED otherThanFast

(***************************************************************************)
(* Preference learning: batch training (ml_preferences/main.py,            *)
(* services/model_trainer.py).                                             *)
(*                                                                         *)
(* The feedback rows of a user are counted by the label they get in        *)
(* prepare_training_data: positive (bookmarked or relevant, not hidden),   *)
(* negative (hidden only), neutral (maybe later only) and ambiguous        *)
(* (relevant and hidden).  A persisted model is the number of its          *)
(* coefficients and their absolute values.                                 *)
(***************************************************************************)
min_feedback_threshold == 10

\* len(FeatureEngineer.get_feature_names()) for the current vocabulary
FeatureCount == Cardinality(FeatureNames)

\* DataCollector.get_user_feedback_stats over the rows of a user
get_user_feedback_stats(log) ==
    [total_feedback |-> log.positive + log.negative + log.neutral + log.ambiguous,
     positive_feedback |-> log.positive + log.ambiguous,
     negative_feedback |-> log.negative + log.ambiguous]

\* len(get_user_feedback_data(user_id))
FeedbackRows(log) == log.positive + log.negative + log.neutral + log.ambiguous

Failure(error) == [success |-> FALSE, error |-> error]

\* prepare_training_data: the numbers of labels 1 and 0, or the ValueError
prepare_training_data(log) ==
    LET ones == log.positive
        zeros == log.negative + log.neutral
    IN  IF FeedbackRows(log) < min_feedback_threshold
        THEN Failure("Not enough feedback data")
        ELSE IF ones + zeros = 0
        THEN Failure("No valid training data after filtering")
        ELSE IF ones = 0 \/ zeros = 0
        THEN Failure("Only one class present in training data")
        ELSE [success |-> TRUE, ones |-> ones, zeros |-> zeros]

\* train_user_model that fits and saves a model on one-class data
train_user_model_one_class(log, fit) ==
    IF FeedbackRows(log) < min_feedback_threshold
    THEN Failure("Not enough feedback data")
    ELSE [success |-> TRUE,
          model |-> [coef_count |-> FeatureCount, feature_importance |-> fit]]

\* train_user_model: the result dict; on success the model saved.  fit is
\* what LogisticRegression(random_state=42).fit yields on the rows; the
\* stratified split raises when a class has a single row
train_user_model(log, fit) ==
    LET data == prepare_training_data(log)
    IN  IF ~data.success THEN Failure(data.error)
        ELSE IF data.ones + data.zeros < min_feedback_threshold
        THEN Failure("Not enough training data")
        ELSE IF Min2(data.ones, data.zeros) < 2
        THEN Failure("The least populated class in y has only 1 member")
        ELSE [success |-> TRUE,
              model |-> [coef_count |-> FeatureCount, feature_importance |-> fit]]

\* validate_model
validate_model(model) ==
    IF model = None THEN [valid |-> FALSE, error |-> "Model file not found"]
    ELSE IF model.coef_count # FeatureCount
    THEN [valid |-> FALSE, error |-> "Feature count mismatch"]
    ELSE [valid |-> TRUE, error |-> ""]

\* get_feature_importance: None without a model file or on a length mismatch
get_feature_importance(model) ==
    IF model = None THEN None
    ELSE IF model.coef_count # FeatureCount THEN None
    ELSE model.feature_importance

\* WeightUpdater.update_user_weights(user_id, feature_importance) with the
\* two reads of the feedback table it starts with.  The fallback strategy is
\* not reached from the batch entry points: they pass a feature importance
\* or handle a new user
UpdateWeights(stored, log, feature_importance) ==
    update_user_weights(stored,
        get_user_feedback_stats(log).total_feedback < new_user_min_feedback,
        get_user_feedback_stats(log), feature_importance, None)

Skipped == [success |-> FALSE, error |-> "skipped"]

\* what one pass leaves: the model files, the user_weight_adjustments rows
\* and the entry of each user in the results it returns
Pass(models, rows, results) == [models |-> models, rows |-> rows, results |-> results]

\* train_all_models, the body of the loop for one user
TrainOne(u, logs, fits, db) ==
    LET result == train_user_model(logs[u], fits[u])
    IN  IF FeedbackRows(logs[u]) < min_feedback_threshold THEN db
        ELSE IF result.success
        THEN Pass([db.models EXCEPT ![u] = result.model],
                  [db.rows EXCEPT ![u] =
                      UpdateWeights(@, logs[u], result.model.feature_importance)],
                  [db.results EXCEPT ![u] = [success |-> TRUE, error |-> ""]])
        ELSE Pass(db.models, db.rows,
                  [db.results EXCEPT ![u] = Failure(result.error)])

\* update_weights_only, the body of the loop for one user
UpdateOne(u, logs, db) ==
    IF ~validate_model(db.models[u]).valid THEN db
    ELSE IF get_feature_importance(db.models[u]) = None
    THEN Pass(db.models, db.rows,
              [db.results EXCEPT ![u] = Failure("No feature importance found")])
    ELSE Pass(db.models,
              [db.rows EXCEPT ![u] =
                  UpdateWeights(@, logs[u], get_feature_importance(db.models[u]))],
              [db.results EXCEPT ![u] = [success |-> TRUE, error |-> ""]])

\* process_new_users, the body of the loop for one user
NewUserOne(u, logs, db) ==
    IF get_user_feedback_stats(logs[u]).total_feedback < new_user_min_feedback
    THEN Pass(db.models, [db.rows EXCEPT ![u] = UpdateWeights(@, logs[u], None)],
              [db.results EXCEPT ![u] = [success |-> TRUE, error |-> ""]])
    ELSE db

FirstUser(users) == CHOOSE u \in users : \A v \in users : u <= v

NoResults == [u \in Users |-> Skipped]

\* train_all_models: the loop over get_users_with_feedback(), in user order
RECURSIVE TrainUsers(_, _, _, _)
TrainUsers(users, logs, fits, db) ==
    IF users = {} THEN db
    ELSE TrainUsers(users \ {FirstUser(users)}, logs, fits,
                    TrainOne(FirstUser(users), logs, fits, db))

train_all_models(logs, fits, models, rows) ==
    TrainUsers({u \in Users : FeedbackRows(logs[u]) > 0}, logs, fits,
               Pass(models, rows, NoResults))

\* update_weights_only: the loop over get_users_with_models()
RECURSIVE UpdateUsers(_, _, _)
UpdateUsers(users, logs, db) ==
    IF users = {} THEN db
    ELSE UpdateUsers(users \ {FirstUser(users)}, logs,
                     UpdateOne(FirstUser(users), logs, db))

update_weights_only(logs, models, rows) ==
    UpdateUsers({u \in Users : models[u] # None}, logs, Pass(models, rows, NoResults))

\* process_new_users: the loop over get_users_with_feedback()
RECURSIVE NewUsers(_, _, _)
NewUsers(users, logs, db) ==
    IF users = {} THEN db
    ELSE NewUsers(users \ {FirstUser(users)}, logs,
                  NewUserOne(FirstUser(users), logs, db))

process_new_users(logs, models, rows) ==
    NewUsers({u \in Users : FeedbackRows(logs[u]) > 0}, logs,
             Pass(models, rows, NoResults))

\* bounds of the batch runs
MaxRuns == 2

\* feedback rows of a user when the batch job starts
FeedbackLogs ==
    [positive : {0, 1, 2, 8}, negative : {0, 1, 2, 8}, neutral : {0, 4},
     ambiguous : {0, 4}]

\* model files found in the artifacts directory: none, one trained for the
\* current feature vocabulary, one trained for an earlier vocabulary
ModelFiles(fit) ==
    {None, [coef_count |-> FeatureCount, feature_importance |-> fit],
     [coef_count |-> FeatureCount - 1, feature_importance |-> fit]}

\* user_weight_adjustments rows found: none, or the row the new user strategy
\* wrote after three positive feedback rows
StoredRows ==
    {None,
     update_user_weights(None, TRUE,
         [total_feedback |-> 3, positive_feedback |-> 3, negative_feedback |-> 0],
         None, None)}

NoRun == [mode |-> "none", training_results |-> NoResults,
          weight_update_results |-> NoResults,
          before |-> [mode |-> "none", models |-> [u \in Users |-> None],
                      rows |-> [u \in Users |-> None]]]

TrainInit ==
    /\ feedback_log \in [Users -> FeedbackLogs]
    /\ fit_result \in [Users -> ImportanceValues]
    /\ user_models \in [Users -> UNION {ModelFiles(fit) : fit \in ImportanceValues}]
    /\ weight_adjustments \in [Users -> StoredRows]
    /\ feedback = [u \in Users |-> get_user_feedback_stats(feedback_log[u])]
    /\ upd_call = [u \in Users |-> None]
    /\ ml_ops = 0
    /\ train_out = NoRun
    /\ train_runs = 0

TrainIdle ==
    /\ feedback_log = [u \in Users |->
            [positive |-> 0, negative |-> 0, neutral |-> 0, ambiguous |-> 0]]
    /\ fit_result = [u \in Users |-> [f \in FeatureNames |-> 0]]
    /\ user_models = [u \in Users |-> None]
    /\ train_out = NoRun
    /\ train_runs = 0

\* what a run found stored when it started, and the run before it
Before == [mode |-> train_out.mode, models |-> user_models, rows |-> weight_adjustments]

\* python main.py --mode train
TrainAllModels ==
    /\ train_runs < MaxRuns
    /\ train_runs' = train_runs + 1
    /\ \E done \in {train_all_models(feedback_log, fit_result, user_models,
                                     weight_adjustments)} :
         /\ user_models' = done.models
         /\ weight_adjustments' = done.rows
         /\ train_out' = [mode |-> "train", training_results |-> done.results,
                          weight_update_results |-> NoResults, before |-> Before]
    /\ UNCHANGED <<feedback_log, fit_result, feedback, upd_call, ml_ops>>
    /\ UNCHANGED otherThanTraining

\* python main.py --mode update
UpdateWeightsOnly ==
    /\ train_runs < MaxRuns
    /\ train_runs' = train_runs + 1
    /\ \E done \in {update_weights_only(feedback_log, user_models,
                                        weight_adjustments)} :
         /\ weight_adjustments' = done.rows
         /\ train_out' = [mode |-> "update", training_results |-> NoResults,
                          weight_update_results |-> done.results, before |-> Before]
    /\ UNCHANGED <<feedback_log, fit_result, user_models, feedback, upd_call, ml_ops>>
    /\ UNCHANGED otherThanTraining

\* python main.py --mode daily: train_all_models, update_weights_only,
\* process_new_users
DailyProcess ==
    /\ train_runs < MaxRuns
    /\ train_runs' = train_runs + 1
    /\ \E trained \in {train_all_models(feedback_log, fit_result, user_models,
                                        weight_adjustments)} :
       \E updated \in {update_weights_only(feedback_log, trained.models,
                                           trained.rows)} :
       \E done \in {process_new_users(feedback_log, updated.models, updated.rows)} :
         /\ user_models' = done.models
         /\ weight_adjustments' = done.rows
         /\ train_out' = [mode |-> "daily", training_results |-> trained.results,
                          weight_update_results |-> updated.results,
                          before |-> Before]
    /\ UNCHANGED <<feedback_log, fit_result, feedback, upd_call, ml_ops>>
    /\ UNCHANGED otherThanTraining


(***************************************************************************)
(* VectorizationService: the job index with and without FAISS              *)
(* (app/job_recommendation_system/services/vectorizer.py).                 *)
(*                                                                         *)
(* An embedding is a vector of two integers of squared length 25, so the   *)
(* inner product FAISS returns and the cosine similarity of the fallback   *)
(* are both the scalar product, in units of 1/25.                          *)
(***************************************************************************)
MaxIndexed == 3

Embeddings == {<<5, 0>>, <<4, 3>>, <<0 - 3, 4>>}

ScalarProduct(a, b) == a[1] * b[1] + a[2] * b[2]

\* the score FAISS reports for a slot it could not fill (label -1)
NoNeighbour == 0 - 1000

SearchLimits == {1, 2}

\* VectorizationService.__init__ and _initialize_faiss_indices
VectorizationService(faiss_available) ==
    [faiss_available |-> faiss_available, job_index |-> <<>>, job_ids |-> <<>>,
     job_embeddings |-> <<>>]

\* _add_to_job_index; add_raises: job_index.add raises
VzAddToJobIndex(service, job_id, embedding, add_raises) ==
    IF service.faiss_available /\ ~add_raises
    THEN [service EXCEPT !.job_index = Append(@, embedding),
                         !.job_ids = Append(@, job_id)]
    ELSE [service EXCEPT !.job_embeddings = Append(@, embedding),
                         !.job_ids = Append(@, job_id)]

BySimilarityScore(a, b) == a.similarity > b.similarity

\* _fallback_job_search: the i-th stored embedding is paired with job_ids[i]
_fallback_job_search(service, query_embedding, limit) ==
    LET results == [i \in DOMAIN service.job_embeddings |->
                        [job_id |-> service.job_ids[i],
                         similarity |->
                            ScalarProduct(query_embedding, service.job_embeddings[i])]]
    IN  SubSeq(SortDescending(results, BySimilarityScore), 1,
               Min2(limit, Len(results)))

\* job_index.search(query, k): the k nearest vectors by inner product, label
\* -1 for the slots beyond the vectors in the index
FaissSearch(vectors, query_embedding, k) ==
    LET found == SortDescending(
                     [i \in DOMAIN vectors |->
                         [idx |-> i, similarity |->
                             ScalarProduct(query_embedding, vectors[i])]],
                     BySimilarityScore)
    IN  [i \in 1..k |-> IF i <= Len(found) THEN found[i]
                        ELSE [idx |-> 0 - 1, similarity |-> NoNeighbour]]

\* search_similar_jobs_faiss with its two ways into the fallback;
\* search_raises: job_index.search raises.  Python's job_ids[-1] is the last
\* job id
VzSearchSimilarJobs(service, query_embedding, limit, search_raises) ==
    LET k == Min2(limit, Len(service.job_ids))
        hits == FaissSearch(service.job_index, query_embedding, k)
    IN  IF service.faiss_available /\ ~search_raises
        THEN [path |-> "faiss",
              results |-> [i \in DOMAIN hits |->
                  [job_id |-> IF hits[i].idx = 0 - 1
                              THEN service.job_ids[Len(service.job_ids)]
                              ELSE service.job_ids[hits[i].idx],
                   similarity |-> hits[i].similarity]]]
        ELSE [path |-> "fallback",
              results |-> _fallback_job_search(service, query_embedding, limit)]

NoSearch == [path |-> "none", results |-> <<>>, query_embedding |-> <<0, 0>>,
             limit |-> 0]

VzInit ==
    /\ vz_service \in {VectorizationService(TRUE), VectorizationService(FALSE)}
    /\ vz_added = <<>>
    /\ vz_out = NoSearch

VzIdle ==
    /\ vz_service = VectorizationService(TRUE)
    /\ vz_added = <<>>
    /\ vz_out = NoSearch

\* vectorize_job_description adds the vector of a job to the index
AddToJobIndex(job_id, embedding, add_raises) ==
    /\ Len(vz_added) < MaxIndexed
    /\ vz_service' = VzAddToJobIndex(vz_service, job_id, embedding, add_raises)
    /\ vz_added' = Append(vz_added, [job_id |-> job_id, embedding |-> embedding])
    /\ vz_out' = NoSearch
    /\ UNCHANGED otherThanVz

SearchSimilarJobs(query_embedding, limit, search_raises) ==
    /\ \E found \in {VzSearchSimilarJobs(vz_service, query_embedding, limit,
                                         search_raises)} :
          vz_out' = [path |-> found.path, results |-> found.results,
                     query_embedding |-> query_embedding, limit |-> limit]
    /\ UNCHANGED <<vz_service, vz_added>>
    /\ UNCHANGED otherThanVz


(***************************************************************************)
(* Personalised weights: the weighting step of match_candidate_to_jobs     *)
(* (job_matcher.py) for a user whose UserWeightAdjustments row the         *)
(* preference learning subsystem rewrites between two matches.             *)
(***************************************************************************)
MaxScorings == 2

PersInputs ==
    [user_profile :
        {[experience_years |-> 5, remote_preference |-> 5, salary_sensitivity |-> 5,
          career_growth_focus |-> 5],
         [experience_years |-> 0, remote_preference |-> 8, salary_sensitivity |-> 8,
          career_growth_focus |-> 8]},
     job_data :
        {[title |-> {"engineer"}, company_name |-> {}, description |-> {}],
         [title |-> {"nurse"}, company_name |-> {"startup"}, description |-> {}]},
     market_context : {None}]

PersFeedback ==
    {[total_feedback |-> 2, positive_feedback |-> 2, negative_feedback |-> 0],
     [total_feedback |-> 5, positive_feedback |-> 3, negative_feedback |-> 2]}

PersInit ==
    /\ base_weights = InitBaseWeights
    /\ industry_weights = InitIndustryWeights
    /\ career_stage_adjustments = InitCareerStageAdjustments
    /\ market_conditions = InitMarketConditions
    /\ wcIn \in PersInputs
    /\ wcOut = NoWeights
    /\ feedback \in [Users -> PersFeedback]
    /\ weight_adjustments = [u \in Users |-> None]
    /\ upd_call = [u \in Users |-> None]
    /\ ml_ops = 0
    /\ pw_log = <<>>

PersIdle == pw_log = <<>>

\* match_candidate_to_jobs for the candidate of user u: the dynamic weights
\* its jobs are scored under
WeighForUser(u) ==
    /\ Len(pw_log) < MaxScorings
    /\ pw_log' = Append(pw_log,
            [user_id |-> u,
             stored |-> weight_adjustments[u],
             dynamic_weights |->
                calculate_optimal_weights(wcIn.user_profile, wcIn.job_data,
                    wcIn.market_context, base_weights, industry_weights,
                    career_stage_adjustments, market_conditions)])
    /\ UNCHANGED <<calcVars, mlVars>>
    /\ UNCHANGED otherThanPers

(***************************************************************************)
(* ModelTrainer.prepare_training_data over the feedback records            *)
(* (ml_preferences/services/model_trainer.py).                             *)
(*                                                                         *)
(* A feedback record is the id of its job and the set of its flags that    *)
(* are true; the feature row extract_job_features builds for a record is   *)
(* named by the job id.                                                    *)
(***************************************************************************)
FeedbackFlags == {"is_bookmarked", "is_relevant", "is_hidden", "is_maybe_later"}

ValueError(message) == [raised |-> TRUE, error |-> message]

\* the loop of prepare_training_data from record i on
RECURSIVE LabelRecords(_, _, _, _)
LabelRecords(user_feedback_data, i, features_list, labels) ==
    IF i > Len(user_feedback_data)
    THEN [features_list |-> features_list, labels |-> labels]
    ELSE LET feedback_item == user_feedback_data[i]
             appended == Append(features_list, feedback_item.job)
             is_positive == \/ "is_bookmarked" \in feedback_item.flags
                            \/ "is_relevant" \in feedback_item.flags
             is_negative == "is_hidden" \in feedback_item.flags
             is_neutral == "is_maybe_later" \in feedback_item.flags
         IN  IF is_positive /\ ~is_negative
             THEN LabelRecords(user_feedback_data, i + 1, appended, Append(labels, 1))
             ELSE IF is_negative /\ ~is_positive
             THEN LabelRecords(user_feedback_data, i + 1, appended, Append(labels, 0))
             ELSE IF is_neutral
             THEN LabelRecords(user_feedback_data, i + 1, appended, Append(labels, 0))
             ELSE LabelRecords(user_feedback_data, i + 1,
                               SubSeq(appended, 1, Len(appended) - 1), labels)

\* prepare_training_data: the rows X and the labels y, or the ValueError
PrepareTrainingData(user_feedback_data) ==
    IF Len(user_feedback_data) < min_feedback_threshold
    THEN ValueError("Not enough feedback data")
    ELSE LET done == LabelRecords(user_feedback_data, 1, <<>>, <<>>)
             features_list ==
                 IF Len(done.features_list) # Len(done.labels)
                 THEN SubSeq(done.features_list, 1, Len(done.labels))
                 ELSE done.features_list
         IN  IF Len(features_list) = 0
             THEN ValueError("No valid training data after filtering")
             ELSE IF Cardinality(Range(done.labels)) < 2
             THEN ValueError("Only one class present in training data")
             ELSE [raised |-> FALSE, X |-> features_list, y |-> done.labels]

\* bounds of the training sets: the records of a user that vary
MaxVaried == 2

\* flag combinations the job endpoints can store: relevant and maybe later
\* exclude each other, bookmarked and hidden are set on their own
StoredFlags ==
    {flags \in SUBSET FeedbackFlags :
        ~("is_relevant" \in flags /\ "is_maybe_later" \in flags)}

\* ten feedback records, relevant and hidden in turn
PlainFeedback ==
    [i \in 1..min_feedback_threshold |->
        [job |-> i, flags |-> IF i % 2 = 1 THEN {"is_relevant"} ELSE {"is_hidden"}]]

RECURSIVE VaryRecords(_, _)
VaryRecords(datasets, n) ==
    IF n = 0 THEN datasets
    ELSE VaryRecords(
            datasets \cup
            {[data EXCEPT ![i].flags = flags] :
                data \in datasets, i \in 1..min_feedback_threshold, flags \in StoredFlags},
            n - 1)

FeedbackData ==
    VaryRecords({PlainFeedback}, MaxVaried)
        \cup {SubSeq(PlainFeedback, 1, min_feedback_threshold - 1)}

NotPrepared == [raised |-> FALSE, X |-> <<>>, y |-> <<>>]

TdInit ==
    /\ tdIn \in FeedbackData
    /\ tdOut = NotPrepared

TdIdle ==
    /\ tdIn = <<>>
    /\ tdOut = NotPrepared

\* model_trainer.prepare_training_data(user_feedback_data)
PrepareData ==
    /\ tdOut = NotPrepared
    /\ tdOut' = PrepareTrainingData(tdIn)
    /\ UNCHANGED tdIn
    /\ UNCHANGED otherThanTd

(***************************************************************************)
(* calculate_optimal_weights step by step, on object references            *)
(* (app/services/weight_calculator.py).                                    *)
(*                                                                         *)
(* A WeightConfig is a mutable object.  A call holds a reference to the    *)
(* object its local variable names: an entry of self.industry_weights,     *)
(* self.base_weights, or an object the call created itself.  The steps     *)
(* that assign to fields write through the reference.                      *)
(***************************************************************************)
MaxCalls == 2

SharedBase == [kind |-> "base"]

SharedIndustry(industry) == [kind |-> "industry", industry |-> industry]

OwnObject == [kind |-> "own"]

NotStarted == [pc |-> "idle"]

\* arguments of the concurrent calls
PureInputs ==
    {[user_profile |-> [experience_years |-> e, remote_preference |-> p,
                        salary_sensitivity |-> 5, career_growth_focus |-> p],
      job_data |-> [title |-> t, company_name |-> {}, description |-> {}],
      market_context |-> mc] :
        e \in {5, NoneNum}, p \in {5, 8}, t \in {{"analyst"}, {"engineer", "senior"}},
        mc \in {None, [remote_work_trend |-> 10, skill_shortage |-> 10,
                       economic_uncertainty |-> 7]}}

\* the object a reference names
Deref(ref, own) ==
    IF ref.kind = "base" THEN base_weights
    ELSE IF ref.kind = "industry" THEN industry_weights[ref.industry]
    ELSE own

\* a step that multiplies the fields of the object it is given in place
NewWeightConfig_same_object(ref) == ref

\* return WeightConfig(...): the reference to the object just created
NewWeightConfig(ref) == OwnObject

\* self.industry_weights.get(industry, self.base_weights)
IndustryWeightsGet(industry) ==
    IF industry \in DOMAIN industry_weights THEN SharedIndustry(industry) ELSE SharedBase

CallIdle == wc_calls = [c \in 1..MaxCalls |-> NotStarted]

\* assignment of value to the fields of the object ref names, by call c
WriteThrough(c, ref, value, next) ==
    /\ wc_calls' = [wc_calls EXCEPT ![c] =
            [@ EXCEPT !.pc = next,
                      !.own = IF ref.kind = "own" THEN value ELSE @]]
    /\ base_weights' = IF ref.kind = "base" THEN value ELSE base_weights
    /\ industry_weights' =
            IF ref.kind = "industry"
            THEN [industry_weights EXCEPT ![ref.industry] = value]
            ELSE industry_weights

\* the call starts: _detect_industry, the industry's weights, _detect_career_stage
BeginCall(c) ==
    /\ wc_calls[c] = NotStarted
    /\ \E args \in PureInputs :
        LET career_stage == _detect_career_stage(args.user_profile, args.job_data)
        IN  wc_calls' = [wc_calls EXCEPT ![c] =
                IF career_stage = "TypeError"
                THEN [pc |-> "done", args |-> args, ref |-> SharedBase,
                      own |-> NoWeights, career_stage |-> career_stage,
                      result |-> base_weights]
                ELSE [pc |-> "career_stage", args |-> args,
                      ref |-> IndustryWeightsGet(_detect_industry(args.job_data)),
                      own |-> NoWeights, career_stage |-> career_stage,
                      result |-> NoWeights]]
    /\ UNCHANGED <<base_weights, industry_weights, career_stage_adjustments,
                   market_conditions, wcIn, wcOut>>
    /\ UNCHANGED otherThanCalls

\* adjusted_weights = self._apply_career_stage_adjustments(base_weights, career_stage)
CareerStageStep(c) ==
    /\ wc_calls[c].pc = "career_stage"
    /\ LET call == wc_calls[c]
           value == _apply_career_stage_adjustments(Deref(call.ref, call.own),
                        call.career_stage, career_stage_adjustments)
           ref == NewWeightConfig(call.ref)
       IN  /\ wc_calls' = [wc_calls EXCEPT ![c] =
                  [@ EXCEPT !.pc = "user_preferences", !.ref = ref,
                            !.own = IF ref.kind = "own" THEN value ELSE @]]
           /\ base_weights' = IF ref.kind = "base" THEN value ELSE base_weights
           /\ industry_weights' =
                  IF ref.kind = "industry"
                  THEN [industry_weights EXCEPT ![ref.industry] = value]
                  ELSE industry_weights
    /\ UNCHANGED <<career_stage_adjustments, market_conditions, wcIn, wcOut>>
    /\ UNCHANGED otherThanCalls

\* user_adjusted_weights = self._apply_user_preferences(adjusted_weights, user_profile)
UserPreferencesStep(c) ==
    /\ wc_calls[c].pc = "user_preferences"
    /\ LET call == wc_calls[c]
       IN  WriteThrough(c, call.ref,
               _apply_user_preferences(Deref(call.ref, call.own), call.args.user_profile),
               "market_conditions")
    /\ UNCHANGED <<career_stage_adjustments, market_conditions, wcIn, wcOut>>
    /\ UNCHANGED otherThanCalls

\* market_adjusted_weights = self._apply_market_conditions(user_adjusted_weights,
\*     market_context or self.market_conditions)
MarketConditionsStep(c) ==
    /\ wc_calls[c].pc = "market_conditions"
    /\ LET call == wc_calls[c]
       IN  WriteThrough(c, call.ref,
               _apply_market_conditions(Deref(call.ref, call.own),
                   IF call.args.market_context = None THEN market_conditions
                   ELSE call.args.market_context),
               "normalize")
    /\ UNCHANGED <<career_stage_adjustments, market_conditions, wcIn, wcOut>>
    /\ UNCHANGED otherThanCalls

\* normalized_weights = self._normalize_weights(market_adjusted_weights); return
NormalizeStep(c) ==
    /\ wc_calls[c].pc = "normalize"
    /\ LET call == wc_calls[c]
       IN  wc_calls' = [wc_calls EXCEPT ![c] =
               [@ EXCEPT !.pc = "done",
                         !.result = _normalize_weights(Deref(call.ref, call.own),
                                                       base_weights)]]
    /\ UNCHANGED <<base_weights, industry_weights, career_stage_adjustments,
                   market_conditions, wcIn, wcOut>>
    /\ UNCHANGED otherThanCalls


InitUpdater == CalcIdle /\ MlInit /\ ScIdle /\ BatchIdle /\ FastIdle /\ TrainIdle /\ VzIdle /\ PersIdle /\ TdIdle /\ CallIdle

NextUpdater ==
    \/ \E u \in Users, kind \in FeedbackKinds : RecordFeedback(u, kind)
    \/ \E u \in Users : UpdateUserWeightsBegin(u)
    \/ \E u \in Users : UpdateUserWeightsFinish(u)
    \/ \E u \in Users : ResetUserWeights(u)

SpecUpdater == InitUpdater /\ [][NextUpdater]_vars

\* multipliers a stored row can start the smoothing from
SmoothStarts == {100, 500, 940, 1060, 1500, 2000}

SmoothInit ==
    /\ feedback = [u \in Users |-> NoStats]
    /\ \E a \in SmoothStarts, b \in SmoothStarts, c \in {Milli, new_user_default_boost} :
         weight_adjustments = [u \in Users |->
            [f \in DOMAIN UserWeightAdjustments |->
                IF f = "skill_weight_adjustment" THEN a
                ELSE IF f = "location_weight_adjustment" THEN b
                ELSE IF f \in MultiplierFields THEN c
                ELSE UserWeightAdjustments[f]]]
    /\ upd_call = [u \in Users |-> None]
    /\ ml_ops = 0

\* one more update that changes nothing but the smoothing (fewer than three
\* feedback rows, or no correlation above the threshold)
SmoothOnly(u) ==
    /\ weight_adjustments[u] # None
    /\ weight_adjustments' = [weight_adjustments EXCEPT ![u] = _apply_weight_smoothing(@)]
    /\ UNCHANGED <<feedback, upd_call, ml_ops>>
    /\ UNCHANGED otherThanMl

InitSmoothing == CalcIdle /\ SmoothInit /\ ScIdle /\ BatchIdle /\ FastIdle /\ TrainIdle /\ VzIdle /\ PersIdle /\ TdIdle /\ CallIdle

NextSmoothing == \E u \in Users : SmoothOnly(u)

SpecSmoothing == InitSmoothing /\ [][NextSmoothing]_vars /\ WF_vars(NextSmoothing)


InitScorers == CalcIdle /\ MlIdle /\ ScInit /\ BatchIdle /\ FastIdle /\ TrainIdle /\ VzIdle /\ PersIdle /\ TdIdle /\ CallIdle

NextScorers ==
    \/ ScoreSkill
    \/ ScoreExperience
    \/ ScoreLocation
    \/ ScoreSalary
    \/ ScoreCareerGrowth
    \/ ScoreMarketDemand
    \/ ScoreJmSkill
    \/ ScoreJmExperience
    \/ ScoreJmLocation
    \/ ScoreJmSalary

SpecScorers == InitScorers /\ [][NextScorers]_vars

InitOntology == CalcIdle /\ MlIdle /\ OntInit /\ BatchIdle /\ FastIdle /\ TrainIdle /\ VzIdle /\ PersIdle /\ TdIdle /\ CallIdle

NextOntology == GetSkillSimilarity

SpecOntology == InitOntology /\ [][NextOntology]_vars

InitSkillCase == CalcIdle /\ MlIdle /\ CaseInit /\ BatchIdle /\ FastIdle /\ TrainIdle /\ VzIdle /\ PersIdle /\ TdIdle /\ CallIdle

NextSkillCase ==
    \/ ScoreSkill
    \/ ScoreJmSkill

SpecSkillCase == InitSkillCase /\ [][NextSkillCase]_vars

InitPersonal == PersInit /\ ScIdle /\ BatchIdle /\ FastIdle /\ TrainIdle /\ VzIdle /\ TdIdle /\ CallIdle

NextPersonal ==
    \/ \E u \in Users : WeighForUser(u)
    \/ \E u \in Users : UpdateUserWeightsBegin(u)
    \/ \E u \in Users : UpdateUserWeightsFinish(u)

SpecPersonal == InitPersonal /\ [][NextPersonal]_vars

InitLabels == CalcIdle /\ MlIdle /\ ScIdle /\ BatchIdle /\ FastIdle /\ TrainIdle /\ VzIdle /\ PersIdle /\ TdInit /\ CallIdle

NextLabels == PrepareData

SpecLabels == InitLabels /\ [][NextLabels]_vars

InitCalls == CalcIdle /\ MlIdle /\ ScIdle /\ BatchIdle /\ FastIdle /\ TrainIdle /\ VzIdle /\ PersIdle /\ TdIdle /\ CallIdle

NextCalls ==
    \/ \E c \in 1..MaxCalls : BeginCall(c)
    \/ \E c \in 1..MaxCalls : CareerStageStep(c)
    \/ \E c \in 1..MaxCalls : UserPreferencesStep(c)
    \/ \E c \in 1..MaxCalls : MarketConditionsStep(c)
    \/ \E c \in 1..MaxCalls : NormalizeStep(c)

SpecCalls == InitCalls /\ [][NextCalls]_vars

InitWeights == CalcInit /\ MlIdle /\ ScIdle /\ BatchIdle /\ FastIdle /\ TrainIdle /\ VzIdle /\ PersIdle /\ TdIdle /\ CallIdle

NextWeights == CalculateOptimalWeights

SpecWeights == InitWeights /\ [][NextWeights]_vars

InitBatch == CalcIdle /\ MlIdle /\ ScIdle /\ BatchInit /\ FastIdle /\ TrainIdle /\ VzIdle /\ PersIdle /\ TdIdle /\ CallIdle

NextBatch ==
    \/ RecommendJobs
    \/ MatchCandidateToJobs

SpecBatch == InitBatch /\ [][NextBatch]_vars

InitScenarios == CalcIdle /\ MlIdle /\ ScIdle /\ ScenarioInit /\ FastIdle /\ TrainIdle /\ VzIdle /\ PersIdle /\ TdIdle /\ CallIdle

NextScenarios == MatchCandidateToJobs

SpecScenarios == InitScenarios /\ [][NextScenarios]_vars

InitFast == CalcIdle /\ MlIdle /\ ScIdle /\ BatchIdle /\ FastInit /\ TrainIdle /\ VzIdle /\ PersIdle /\ TdIdle /\ CallIdle

NextFast ==
    \/ \E job_data \in Postings : PostJob(job_data)
    \/ \E candidate_data \in Resumes : UploadResume(candidate_data)
    \/ \E candidate_id \in CandidateIds, limit \in Limits :
            GetJobRecommendations(candidate_id, limit)
    \/ \E candidate_id \in CandidateIds, job_id \in JobIds :
            ExpireMatch(candidate_id, job_id)

SpecFast == InitFast /\ [][NextFast]_vars

InitTraining == CalcIdle /\ TrainInit /\ ScIdle /\ BatchIdle /\ FastIdle /\ VzIdle /\ PersIdle /\ TdIdle /\ CallIdle

NextTraining ==
    \/ TrainAllModels
    \/ UpdateWeightsOnly
    \/ DailyProcess

SpecTraining == InitTraining /\ [][NextTraining]_vars

InitVectorizer == CalcIdle /\ MlIdle /\ ScIdle /\ BatchIdle /\ FastIdle /\ TrainIdle /\ VzInit /\ PersIdle /\ TdIdle /\ CallIdle

NextVectorizer ==
    \/ \E job_id \in {1, 2}, embedding \in Embeddings, add_raises \in BOOLEAN :
            AddToJobIndex(job_id, embedding, add_raises)
    \/ \E query_embedding \in Embeddings, limit \in SearchLimits, search_raises \in BOOLEAN :
            SearchSimilarJobs(query_embedding, limit, search_raises)

SpecVectorizer == InitVectorizer /\ [][NextVectorizer]_vars

(***************************************************************************)
(* C1: every WeightConfig returned by calculate_optimal_weights has seven  *)
(* non-negative weights whose sum is within 1e-6 of 1.0 (error path and    *)
(* all preference / market values included).                               *)
(***************************************************************************)
SumOfWeights(w) ==
    w.skill_weight + w.experience_weight + w.location_weight + w.salary_weight
    + w.semantic_weight + w.market_demand_weight + w.career_growth_weight

C1_WeightsNormalized ==
    wcOut # NoWeights =>
        /\ \A f \in WeightFields : wcOut[f] >= 0
        /\ wcOut.unit > 0
        /\ Abs(SumOfWeights(wcOut) - wcOut.unit) <= wcOut.unit \div 1000000

\* a normalised (non error-path) result with every adjustment stage active
C1_Witness ==
    /\ wcOut # NoWeights
    /\ wcOut.unit # 100
    /\ wcIn.user_profile.remote_preference > 7
    /\ wcIn.market_context # None
    /\ wcIn.market_context.remote_work_trend = 10

\* the error path was taken: base weights returned
C1_WitnessError ==
    /\ wcOut # NoWeights
    /\ wcIn.user_profile.experience_years = NoneNum
    /\ wcOut = InitBaseWeights

(***************************************************************************)
(* C9: after any sequence of update_user_weights and reset_user_weights,   *)
(* with any mix of the new-user, ML and correlation strategies, every      *)
(* stored multiplier lies in [min_weight_adjustment, max_weight_adjustment]*)
(* (0.1 .. 2.0); the correlation conversion stays in that range for any    *)
(* correlation value, negative ones included.                              *)
(***************************************************************************)
CorrelationProbe == {0 - 3000, 0 - 1000, 0 - 500, 0, 300, 1000, 3000}

C9_MultipliersBounded ==
    /\ \A u \in Users :
         weight_adjustments[u] # None =>
            \A f \in MultiplierFields :
                /\ weight_adjustments[u][f] >= min_weight_adjustment
                /\ weight_adjustments[u][f] <= max_weight_adjustment
    /\ \A c \in CorrelationProbe :
         /\ _calculate_adjustment_from_correlation(c) >= 100
         /\ _calculate_adjustment_from_correlation(c) <= 2000

\* the ML strategy hit the upper clamp (2.0, smoothed to 1.9) in a row that
\* has been through more than one operation
C9_Witness ==
    \E u \in Users :
        /\ weight_adjustments[u] # None
        /\ weight_adjustments[u].skill_weight_adjustment = 1900
        /\ weight_adjustments[u].feedback_count >= 3
        /\ ml_ops >= 2

(***************************************************************************)
(* C10: repeated smoothing with no new feedback moves every multiplier     *)
(* monotonically toward 1.0 without ever crossing it, strictly closer      *)
(* while it is further than the rounding resolution, and so converges to   *)
(* 1.0 (to within SmoothTol of it, for good).                              *)
(***************************************************************************)
\* half a unit of rounding per step over a contraction of smoothing_factor
SmoothTol == (Milli \div weight_smoothing_factor) \div 2

NearNeutral ==
    \A u \in Users : \A f \in MultiplierFields :
        Abs(weight_adjustments[u][f] - Milli) <= SmoothTol

SmoothStepTowardNeutral ==
    \A u \in Users : \A f \in MultiplierFields :
        LET v == weight_adjustments[u][f]
            w == weight_adjustments'[u][f]
        IN  /\ v >= Milli => (w >= Milli /\ w <= v)
            /\ v <= Milli => (w <= Milli /\ w >= v)
            /\ Abs(v - Milli) > SmoothTol => Abs(w - Milli) < Abs(v - Milli)

C10_SmoothingConverges ==
    /\ [][SmoothStepTowardNeutral]_vars
    /\ <>[]NearNeutral

\* smoothing has run from both sides of 1.0 and has reached the neutral band
C10_Witness ==
    \E u \in Users :
        /\ weight_adjustments[u].skill_weight_adjustment > Milli
        /\ weight_adjustments[u].skill_weight_adjustment <= Milli + SmoothTol
        /\ weight_adjustments[u].location_weight_adjustment < Milli
        /\ weight_adjustments[u].location_weight_adjustment >= Milli - SmoothTol
\* C4: every component scorer returns a score in the closed interval
\* [0.0, 1.0]; a call that raises instead of returning is not in it.
C4_ScoresInUnitInterval ==
    scOut # NotScored => (scOut # Raised /\ 0 <= scOut /\ scOut <= ScoreUnit)

(***************************************************************************)
(* C3: the overall score of every match is a convex combination of its     *)
(* sub-scores: it lies between the smallest and the largest sub-score and  *)
(* is 1.0 when every sub-score is 1.0.                                     *)
(***************************************************************************)
SubScores(m) ==
    {m.skill_match_score, m.experience_match_score, m.location_match_score,
     m.career_growth_score, m.salary_match_score, m.market_demand_score}

SetMin(S) == CHOOSE x \in S : \A y \in S : x <= y

SetMax(S) == CHOOSE x \in S : \A y \in S : y <= x

\* C3: every match returned by recommend_jobs or match_candidate_to_jobs has
\* an overall score between its smallest and its largest sub-score, and an
\* overall score of 1.0 when all its sub-scores are 1.0
C3_OverallIsConvexCombination ==
    /\ \A i \in DOMAIN rjOut.matches :
          LET m == rjOut.matches[i]
          IN  /\ SetMin(SubScores(m)) * 100 <= m.match_score
              /\ m.match_score <= SetMax(SubScores(m)) * 100
              /\ SubScores(m) = {ScoreUnit} => m.match_score = ScoreUnit * 100
    /\ \A i \in DOMAIN mcOut.matches :
          LET m == mcOut.matches[i]
              Against(s) == CompareFractions(m.match_score.num, m.match_score.den,
                                             s \div JmScale, ScoreUnit \div JmScale)
          IN  /\ Against(SetMin(m.sub_scores)) >= 0
              /\ Against(SetMax(m.sub_scores)) <= 0
              /\ m.sub_scores = {ScoreUnit} => Against(ScoreUnit) = 0

(***************************************************************************)
(* C5: a batch match returns only matches at or above the minimum score,   *)
(* in non-increasing order of overall score, and at most topK of them.     *)
(***************************************************************************)
\* C5: the list returned by recommend_jobs and the list returned by
\* match_candidate_to_jobs (a) hold only matches whose overall score is at
\* least min_match_score, (b) are in non-increasing order of overall score,
\* (c) have at most max_results, respectively top_k, entries
C5_BatchFilteredSortedLimited ==
    /\ \A i \in DOMAIN rjOut.matches :
          rjOut.matches[i].match_score >= min_match_score * ScoreUnit
    /\ \A i, j \in DOMAIN rjOut.matches :
          i < j => rjOut.matches[i].match_score >= rjOut.matches[j].match_score
    /\ Len(rjOut.matches) <= max_results
    /\ \A i \in DOMAIN mcOut.matches :
          CompareFractions(mcOut.matches[i].match_score.num,
                           mcOut.matches[i].match_score.den,
                           min_match_score, 100) >= 0
    /\ \A i, j \in DOMAIN mcOut.matches :
          i < j => ~ByMatchFraction(mcOut.matches[j], mcOut.matches[i])
    /\ Len(mcOut.matches) <= batIn.top_k

(***************************************************************************)
(* C6: an error raised while one job of a batch is scored removes that job *)
(* from the result and nothing else.                                       *)
(***************************************************************************)
\* C6: with valid arguments, the result of recommend_jobs and the result of
\* match_candidate_to_jobs are the results of the same call on the jobs
\* whose scoring does not raise: the call returns, and only those jobs are
\* missing
C6_ScoringErrorSkipsOnlyThatJob ==
    LET candidate == batIn.candidate_data
        jobs == batIn.jobs_data
        valid == /\ validate_candidate_data(candidate)
                 /\ \A i \in DOMAIN jobs : validate_job_data(jobs[i])
        RjScores(job) ==
            \/ ~_is_job_active(job)
            \/ \A o \in Orders(_normalize_skills(candidate.skills)) :
                  _calculate_comprehensive_match(_create_candidate_profile(candidate),
                                                 job, o) # Exception
        McScores(job) ==
            \/ ~_is_job_active(job)
            \/ \A o \in Orders(candidate.skills) :
                  match_candidate_to_job(candidate, job, o, base_weights,
                      industry_weights, career_stage_adjustments,
                      market_conditions) # Exception
    IN  /\ (rjOut # NotCalled /\ valid) =>
              \E o \in Orders(_normalize_skills(candidate.skills)) :
                  rjOut = recommend_jobs(candidate, SelectSeq(jobs, RjScores), o)
        /\ mcOut # NotCalled =>
              \E o \in Orders(candidate.skills) :
                  mcOut = Returned(match_candidate_to_jobs(candidate,
                              SelectSeq(jobs, McScores), batIn.top_k, o, base_weights,
                              industry_weights, career_stage_adjustments,
                              market_conditions))

(***************************************************************************)
(* C2: no entry point returns a match for a job that is not active.        *)
(***************************************************************************)
\* C2: every match returned by recommend_jobs, match_candidate_to_jobs or
\* get_job_recommendations refers to a job whose status is 'active'
C2_OnlyActiveJobsMatched ==
    /\ \A i \in DOMAIN rjOut.matches : \A k \in DOMAIN batIn.jobs_data :
          batIn.jobs_data[k].id = rjOut.matches[i].job_id
              => lower(batIn.jobs_data[k].status) = "active"
    /\ \A i \in DOMAIN mcOut.matches : \A k \in DOMAIN batIn.jobs_data :
          batIn.jobs_data[k].id = mcOut.matches[i].job_id
              => lower(batIn.jobs_data[k].status) = "active"
    /\ \A i \in DOMAIN fastOut.matches :
          lower(fastOut.matches[i].job.status) = "active"

(***************************************************************************)
(* C7: a repeated request returns the same match, served from the cache.   *)
(***************************************************************************)
\* the fields of a JobMatch the claim names
MatchFields(m) ==
    [match_score |-> m.match_score, confidence_score |-> m.confidence_score,
     skill_match_score |-> m.skill_match_score,
     experience_match_score |-> m.experience_match_score,
     location_match_score |-> m.location_match_score,
     career_growth_score |-> m.career_growth_score,
     salary_match_score |-> m.salary_match_score,
     skill_matches |-> m.skill_matches, missing_skills |-> m.missing_skills]

\* C7: when a request for a candidate follows a request for the same
\* candidate with no posting, upload or expiry in between, every job matched
\* in both responses has the same overall score, sub-scores, confidence,
\* matched and missing skills in both, and its second match comes from the
\* cache
C7_RepeatedRequestIdenticalFromCache ==
    (fastOut.undisturbed /\ prevOut.candidate_id = fastOut.candidate_id)
    => \A i \in DOMAIN fastOut.matches, j \in DOMAIN prevOut.matches :
          fastOut.matches[i].job_id = prevOut.matches[j].job_id
          => /\ fastOut.matches[i].from_cache
             /\ MatchFields(fastOut.matches[i]) = MatchFields(prevOut.matches[j])

OneClass(log) ==
    /\ FeedbackRows(log) >= min_feedback_threshold
    /\ log.positive + log.negative + log.neutral > 0
    /\ (log.positive = 0 \/ log.negative + log.neutral = 0)

\* C11: after train_all_models (alone or as the first step of the daily
\* process) a user whose labelled feedback rows all have one label has the
\* result 'Only one class present in training data', and a run of
\* train_all_models leaves the model file and the weight adjustment row of
\* that user as it found them
C11_OneClassTrainingFails ==
    \A u \in Users :
        OneClass(feedback_log[u]) =>
            /\ train_out.mode \in {"train", "daily"} =>
                  train_out.training_results[u] =
                      Failure("Only one class present in training data")
            /\ train_out.mode = "train" =>
                  /\ user_models[u] = train_out.before.models[u]
                  /\ weight_adjustments[u] = train_out.before.rows[u]

\* train_all_models has run for a user with one label class who had a model
\* file and a weight adjustment row
C11_Witness ==
    \E u \in Users :
        /\ train_out.mode = "train"
        /\ OneClass(feedback_log[u])
        /\ user_models[u] # None
        /\ weight_adjustments[u] # None

(***************************************************************************)
(* C12: a model of another feature vocabulary sends the user back to the   *)
(* strategies without a model.                                             *)
(***************************************************************************)
\* C12: after update_weights_only, a user whose model file has a number of
\* coefficients other than the number of feature names has the weight
\* adjustment row that update_user_weights without a feature importance
\* (new user or correlation strategy) computes from the row found
C12_StaleModelFallsBack ==
    \A u \in Users :
        (/\ train_out.mode = "update"
         /\ train_out.before.models[u] # None
         /\ train_out.before.models[u].coef_count # FeatureCount)
        => \E correlations \in calculate_feature_correlations(feedback[u]) :
              weight_adjustments[u] =
                  update_user_weights(train_out.before.rows[u],
                      feedback[u].total_feedback < new_user_min_feedback,
                      feedback[u], None, correlations)

(***************************************************************************)
(* C13: a second batch run on the same feedback changes nothing.           *)
(***************************************************************************)
\* C13: when train_all_models follows train_all_models, or the daily process
\* follows the daily process, on the same feedback rows, the model files and
\* the weight adjustment rows after the second run are those after the first
C13_RetrainingIdempotent ==
    (train_out.mode \in {"train", "daily"} /\ train_out.before.mode = train_out.mode)
    => /\ user_models = train_out.before.models
       /\ weight_adjustments = train_out.before.rows

(***************************************************************************)
(* C14: without FAISS, or when its search fails, the brute-force scan      *)
(* answers from all jobs added.                                            *)
(***************************************************************************)
\* C14: a search answered by the fallback returns min(limit, number of jobs
\* added) pairs, in non-increasing order of similarity, each the id of a job
\* added so far with the similarity of the query to the embedding added for
\* that job
C14_FallbackSearchesAllJobs ==
    vz_out.path = "fallback" =>
        /\ Len(vz_out.results) = Min2(vz_out.limit, Len(vz_added))
        /\ \A i \in DOMAIN vz_out.results :
              /\ i > 1 => vz_out.results[i - 1].similarity >= vz_out.results[i].similarity
              /\ \E k \in DOMAIN vz_added :
                    /\ vz_added[k].job_id = vz_out.results[i].job_id
                    /\ ScalarProduct(vz_out.query_embedding, vz_added[k].embedding)
                            = vz_out.results[i].similarity

\* the synonyms, related skills and category the ontology lists for a name
ListedSynonyms(skill) ==
    IF skill \in DOMAIN skills_graph THEN skills_graph[skill].synonyms ELSE {}

ListedRelated(skill) ==
    IF skill \in DOMAIN skills_graph THEN skills_graph[skill].related_skills ELSE {}

ShareCategory(a, b) ==
    /\ a \in DOMAIN skills_graph
    /\ b \in DOMAIN skills_graph
    /\ skills_graph[a].category = skills_graph[b].category

\* the similarity of two names whose identity is the lower-case name
SimilarityByPriority(skill1, skill2) ==
    LET a == lower(skill1)
        b == lower(skill2)
    IN  IF a = b THEN Pct(100)
        ELSE IF a \in ListedSynonyms(b) \/ b \in ListedSynonyms(a) THEN Pct(90)
        ELSE IF a \in ListedRelated(b) \/ b \in ListedRelated(a) THEN Pct(70)
        ELSE IF ShareCategory(a, b) THEN Pct(50)
        ELSE 0

\* C15: get_skill_similarity(a, b) is 1.0 when a and b have the same
\* lower-case name, else 0.9 when one is a listed synonym of the other, else
\* 0.7 when one lists the other as related, else 0.5 when they share a
\* category, else 0.0, and never another value.
C15_SimilarityByPriority ==
    (scIn.scorer = "similarity" /\ scOut # NotScored) =>
        scOut = SimilarityByPriority(scIn.skill1, scIn.skill2)

\* a job posting that misses a required field, has a negative experience
\* bound, or a minimum salary above the maximum
MalformedJob(job_data) ==
    \/ job_data.title = <<>>
    \/ job_data.company_name = {}
    \/ job_data.min_experience_years < 0
    \/ job_data.max_experience_years < 0
    \/ job_data.min_salary > job_data.max_salary

MalformedJobIds == {batIn.jobs_data[i].id : i \in {k \in DOMAIN batIn.jobs_data : MalformedJob(batIn.jobs_data[k])}}

\* C16: malformed input is rejected before it is scored: no match returned
\* by recommend_jobs or match_candidate_to_jobs is computed from a job whose
\* required field is missing, whose experience is negative or whose minimum
\* salary exceeds the maximum.
C16_MalformedInputNeverScored ==
    /\ \A i \in DOMAIN rjOut.matches : rjOut.matches[i].job_id \notin MalformedJobIds
    /\ \A i \in DOMAIN mcOut.matches : mcOut.matches[i].job_id \notin MalformedJobIds

\* the multipliers of a stored row that scale a weight of the WeightConfig
StoredMultipliers(stored) ==
    LET row == IF stored = None THEN UserWeightAdjustments ELSE stored
    IN  <<row.skill_weight_adjustment, row.location_weight_adjustment,
          row.salary_weight_adjustment>>

\* C17: the weights a user's matches are scored under depend on the stored
\* multipliers: two weighting steps for the same profile and job under
\* different stored multipliers use different weights.
C17_WeightsFollowStoredMultipliers ==
    \A i \in DOMAIN pw_log : \A j \in DOMAIN pw_log :
        StoredMultipliers(pw_log[i].stored) # StoredMultipliers(pw_log[j].stored)
            => pw_log[i].dynamic_weights # pw_log[j].dynamic_weights

\* the candidate has none of the required skills, is two years below the
\* minimum experience, lives in another city, and the job is not remote
ClearlyUnsuitable(candidate_data, job) ==
    /\ candidate_data.skills # {}
    /\ {lower(skill) : skill \in candidate_data.skills}
            \cap {lower(skill) : skill \in job.required_skills} = {}
    /\ candidate_data.experience_years # NoneNum
    /\ candidate_data.experience_years = job.min_experience_years - 2
    /\ candidate_data.location # <<>>
    /\ job.location # <<>>
    /\ candidate_data.location[1] # job.location[1]
    /\ lower(job.remote_work_allowed) = "no"

\* C18: a clearly unsuitable candidate obtains an overall match score below
\* 0.3 for the job.
C18_UnsuitableScoresLow ==
    \A i \in DOMAIN mcOut.matches : \A k \in DOMAIN batIn.jobs_data :
        (/\ batIn.jobs_data[k].id = mcOut.matches[i].job_id
         /\ ClearlyUnsuitable(batIn.candidate_data, batIn.jobs_data[k]))
            => CompareFractions(mcOut.matches[i].match_score.num,
                                mcOut.matches[i].match_score.den, 3, 10) = 0 - 1

\* candidate_no_skills: no skills, zero experience, no location and no
\* salary expectation
EmptyCandidate(candidate_data) ==
    /\ candidate_data.skills = {}
    /\ candidate_data.experience_years = 0
    /\ candidate_data.location = <<>>
    /\ candidate_data.salary_expectation = NoneNum

\* C19: matching the empty candidate with an active job returns, and the
\* result holds a match for that job with an overall score of at least 0.0.
C19_EmptyCandidateIsScored ==
    (EmptyCandidate(batIn.candidate_data) /\ mcOut # NotCalled) =>
        /\ mcOut.status = "returned"
        /\ \A k \in DOMAIN batIn.jobs_data :
              (k <= batIn.top_k /\ _is_job_active(batIn.jobs_data[k])) =>
                  \E i \in DOMAIN mcOut.matches :
                      /\ mcOut.matches[i].job_id = batIn.jobs_data[k].id
                      /\ mcOut.matches[i].match_score.num >= 0
                      /\ mcOut.matches[i].match_score.den > 0

C19_Witness ==
    /\ EmptyCandidate(batIn.candidate_data)
    /\ mcOut.status = "returned"
    /\ Len(mcOut.matches) = 1
    /\ batIn.jobs_data[1].location = NonStringLocation

\* the other spellings of a skill name: they differ from it in letter case
\* or in surrounding spaces only
SkillSpellings ==
    {"python", "Python", " python ", "javascript", "JavaScript", "sql", "SQL", "java",
     "mysql", "react", "React"}

Variants(skill) ==
    {v \in SkillSpellings : strip(lower(v)) = strip(lower(skill))} \ {skill}

\* a list with one name replaced by another spelling that the list does not
\* hold yet
Respelled(skills) ==
    UNION { {(skills \ {skill}) \cup {v} : v \in Variants(skill) \ skills} : skill \in skills }

\* C20: the skill score does not change when a skill name of the candidate,
\* required or preferred list is replaced by another spelling of it (letter
\* case, surrounding spaces), for the skill matcher and for the job matcher;
\* the job matcher iterates set(candidate_skills), whose order follows the
\* strings.
C20_SkillScoreIgnoresSpelling ==
    /\ (scIn.scorer = "jm_skill" /\ scOut # NotScored) =>
        /\ \A c \in Respelled(Range(scIn.candidate_order)) : \A o \in Orders(c) :
              calculate_skill_match_score(o, scIn.required_skills,
                  scIn.preferred_skills) = scOut
        /\ \A r \in Respelled(scIn.required_skills) :
              calculate_skill_match_score(scIn.candidate_order, r,
                  scIn.preferred_skills) = scOut
        /\ \A p \in Respelled(scIn.preferred_skills) :
              calculate_skill_match_score(scIn.candidate_order, scIn.required_skills,
                  p) = scOut
    /\ (scIn.scorer = "skill" /\ scOut # NotScored) =>
        /\ \A c \in Respelled(scIn.candidate_skills) :
              SkillMatcher_calculate_match(c, scIn.required_skills, scIn.preferred_skills,
                  scIn.resume_text, scIn.candidate_order).score = scOut
        /\ \A r \in Respelled(scIn.required_skills) :
              SkillMatcher_calculate_match(scIn.candidate_skills, r, scIn.preferred_skills,
                  scIn.resume_text, scIn.candidate_order).score = scOut
        /\ \A p \in Respelled(scIn.preferred_skills) :
              SkillMatcher_calculate_match(scIn.candidate_skills, scIn.required_skills, p,
                  scIn.resume_text, scIn.candidate_order).score = scOut

\* the floor and the training threshold between which a user is bootstrapping
Bootstrapping(stats) ==
    /\ stats.total_feedback >= new_user_min_feedback
    /\ stats.total_feedback < min_feedback_threshold

\* an update_user_weights call of user u without a fitted model commits
CommitsWithoutModel(u) ==
    /\ upd_call[u] # None
    /\ upd_call'[u] = None
    /\ upd_call[u].feature_importance = None

\* C21: a weight update of a bootstrapping user without a fitted model uses
\* the feedback ratios: skill and location multipliers above 1.0 when the
\* positive ratio exceeds 0.6, below 1.0 when the negative ratio exceeds 0.6,
\* at 1.0 otherwise; below the floor every multiplier stays at 1.0.
C21_BootstrappingUsesRatios ==
    [][\A u \in Users : CommitsWithoutModel(u) =>
        LET stats == feedback[u]
            row == weight_adjustments'[u]
            likes == 10 * stats.positive_feedback > 6 * stats.total_feedback
            dislikes == 10 * stats.negative_feedback > 6 * stats.total_feedback
        IN  /\ Bootstrapping(stats) =>
                \A f \in {"skill_weight_adjustment", "location_weight_adjustment"} :
                    IF likes THEN row[f] > Milli /\ row[f] <= new_user_default_boost
                    ELSE IF dislikes
                    THEN row[f] < Milli /\ row[f] >= 2 * Milli - new_user_default_boost
                    ELSE row[f] = Milli
            /\ stats.total_feedback < new_user_min_feedback =>
                \A f \in MultiplierFields : row[f] = Milli]_vars

\* the weights after the industry and career-stage steps of the last call
AfterCareerStage ==
    _apply_career_stage_adjustments(
        industry_weights[_detect_industry(wcIn.job_data)],
        _detect_career_stage(wcIn.user_profile, wcIn.job_data),
        career_stage_adjustments)

\* C22: a weight that is strictly greater than another after the industry and
\* career-stage steps is greater than or equal to it in the returned
\* WeightConfig (after user preferences, market conditions, normalization).
C22_LaterStagesKeepRanking ==
    (/\ wcOut # NoWeights
     /\ _detect_career_stage(wcIn.user_profile, wcIn.job_data) # "TypeError") =>
        \A f \in WeightFields, g \in WeightFields :
            AfterCareerStage[f] > AfterCareerStage[g] => wcOut[f] >= wcOut[g]

\* the label of a record under a reading of "hidden": 1, 0, or -1 for
\* excluded.  "any": every hidden record is labelled 0; "only": hidden means
\* hidden and not positive, a record both positive and hidden is ambiguous
LabelOf(reading, flags) ==
    LET positive == "is_bookmarked" \in flags \/ "is_relevant" \in flags
        hidden == "is_hidden" \in flags
    IN  IF positive /\ ~hidden THEN 1
        ELSE IF hidden /\ (reading = "any" \/ ~positive) THEN 0
        ELSE IF flags = {"is_maybe_later"} THEN 0
        ELSE 0 - 1

\* the (job, label) pairs of the records a reading keeps, in their order
RECURSIVE KeptPairs(_, _, _)
KeptPairs(user_feedback_data, i, reading) ==
    IF i > Len(user_feedback_data) THEN <<>>
    ELSE LET feedback_item == user_feedback_data[i]
             rest == KeptPairs(user_feedback_data, i + 1, reading)
         IN  IF LabelOf(reading, feedback_item.flags) = 0 - 1 THEN rest
             ELSE <<[job |-> feedback_item.job,
                     label |-> LabelOf(reading, feedback_item.flags)]>> \o rest

\* the (row, label) pairs of the training set returned
ReturnedPairs == [i \in 1..Len(tdOut.y) |-> [job |-> tdOut.X[i], label |-> tdOut.y[i]]]

\* C23: in the training set a record is labelled 1 exactly when it is
\* (bookmarked or relevant) and not hidden, 0 when it is hidden or only marked
\* maybe later, every other combination of flags is left out, and each label
\* is paired with the feature row of its record; "hidden" read either as any
\* hidden record or as a hidden record that is not positive.
C23_LabelsFollowFlags ==
    (tdOut # NotPrepared /\ ~tdOut.raised) =>
        /\ Len(tdOut.X) = Len(tdOut.y)
        /\ \/ ReturnedPairs = KeptPairs(tdIn, 1, "only")
           \/ ReturnedPairs = KeptPairs(tdIn, 1, "any")

\* a required skill of the job matcher has a match of some kind (direct,
\* ontology or category) among the candidate skills
JmMatched(candidate_order, required_skill) ==
    _find_enhanced_skill_matches(
        [j \in DOMAIN candidate_order |-> lower(candidate_order[j])],
        {lower(required_skill)}) # {}

\* a normalised required skill of the skill matcher has a match of some kind
\* (exact, semantic or transferable)
SmMatched(candidate_normalized, required_skill, resume_text) ==
    \/ required_skill \in candidate_normalized
    \/ /\ ~resume_text.empty
       /\ calculate_skill_similarity_batch(resume_text, {required_skill})[required_skill]
            > skill_similarity_threshold
    \/ \E c \in candidate_normalized :
          get_transferability(c, required_skill) > Pct(transferable_skill_threshold)

\* C24: the missing-skill list returned with a skill score holds exactly the
\* required skills for which no match of any kind was found, for the job
\* matcher and for the skill matcher.
C24_MissingAreTheUnmatched ==
    /\ (scIn.scorer = "jm_skill" /\ scOut # NotScored /\ scIn.candidate_order # <<>>
            /\ scIn.required_skills # {}) =>
        LET result == _calculate_enhanced_skill_match_score(scIn.candidate_order,
                          scIn.required_skills, scIn.preferred_skills)
        IN  /\ result.skill_score = scOut
            /\ result.missing_required =
                {lower(skill) : skill \in
                    {r \in scIn.required_skills : ~JmMatched(scIn.candidate_order, r)}}
    /\ (scIn.scorer = "skill" /\ scOut # NotScored) =>
        LET analysis == SkillMatcher_calculate_match(scIn.candidate_skills,
                            scIn.required_skills, scIn.preferred_skills,
                            scIn.resume_text, scIn.candidate_order)
        IN  /\ analysis.score = scOut
            /\ analysis.missing_skills =
                {r \in analysis.required_skills :
                    \/ scIn.candidate_skills = {}
                    \/ ~SmMatched(_normalize_skills(scIn.candidate_skills), r,
                                  scIn.resume_text)}

\* C25: after any interleaving of calculate_optimal_weights calls the
\* calculator's base weights, industry table, career-stage table and default
\* market conditions equal their initial values, and what a call returns is
\* what its arguments alone determine.
C25_CallsLeaveCalculatorUnchanged ==
    /\ base_weights = InitBaseWeights
    /\ industry_weights = InitIndustryWeights
    /\ career_stage_adjustments = InitCareerStageAdjustments
    /\ market_conditions = InitMarketConditions
    /\ \A c \in 1..MaxCalls :
        wc_calls[c].pc = "done" =>
            wc_calls[c].result =
                calculate_optimal_weights(wc_calls[c].args.user_profile,
                    wc_calls[c].args.job_data, wc_calls[c].args.market_context,
                    InitBaseWeights, InitIndustryWeights,
                    InitCareerStageAdjustments, InitMarketConditions)

\* two calls for jobs of one industry have returned, each after assigning to
\* the fields of its WeightConfig, with different arguments
C25_Witness ==
    /\ \A c \in 1..2 :
        /\ wc_calls[c].pc = "done"
        /\ wc_calls[c].career_stage # "TypeError"
        /\ wc_calls[c].args.user_profile.remote_preference = 8
        /\ wc_calls[c].result # InitBaseWeights
    /\ wc_calls[1].args.job_data = wc_calls[2].args.job_data
    /\ wc_calls[1].args.market_context # wc_calls[2].args.market_context

\* a step of the daily run called update_user_weights for user u: the
\* training step after a successful fit, the update step for a valid model,
\* the new-user step for a user is_new_user holds for
UpdatedInRun(u) ==
    \/ train_out.training_results[u].success
    \/ train_out.weight_update_results[u].success
    \/ get_user_feedback_stats(feedback_log[u]).total_feedback < new_user_min_feedback

\* C26: in one run of daily_process, update_user_weights is called for every
\* user who has recorded feedback, whatever their feedback count.
C26_DailyRunUpdatesEveryUser ==
    train_out.mode = "daily" =>
        \A u \in Users : FeedbackRows(feedback_log[u]) > 0 => UpdatedInRun(u)

\* C27: the row update_user_weights commits is the one a single snapshot of
\* the feedback log yields: is_new_user is true exactly when the stored
\* feedback_count is below the new-user floor, and the multipliers come from
\* the strategy that belongs to that count, also when feedback is recorded
\* while the call runs.
C27_CommitFollowsOneSnapshot ==
    [][\A u \in Users :
        (upd_call[u] # None /\ upd_call'[u] = None) =>
            /\ weight_adjustments'[u].is_new_user =
                    (weight_adjustments'[u].feedback_count < new_user_min_feedback)
            /\ \E correlations \in calculate_feature_correlations(feedback[u]) :
                  weight_adjustments'[u] =
                      update_user_weights(weight_adjustments[u],
                          feedback[u].total_feedback < new_user_min_feedback,
                          feedback[u], upd_call[u].feature_importance, correlations)]_vars

\* a vector was added to the index for job job_id
AddedFor(job_id, embedding) ==
    \E k \in DOMAIN vz_added :
        vz_added[k].job_id = job_id /\ vz_added[k].embedding = embedding

\* position i of job_ids names the job whose vector is at position i of store
AlignedWithJobIds(store) ==
    \A i \in DOMAIN store :
        /\ i <= Len(vz_service.job_ids)
        /\ AddedFor(vz_service.job_ids[i], store[i])

\* C29: after any additions, also when job_index.add fails and the in-memory
\* store is used, the id list is aligned with the FAISS index and with the
\* in-memory store, and every search hit carries the id of a job added with
\* the vector that scored it.
C29_IdsAlignedWithVectors ==
    /\ AlignedWithJobIds(vz_service.job_index)
    /\ AlignedWithJobIds(vz_service.job_embeddings)
    /\ \A i \in DOMAIN vz_out.results :
          \E k \in DOMAIN vz_added :
              /\ vz_added[k].job_id = vz_out.results[i].job_id
              /\ ScalarProduct(vz_out.query_embedding, vz_added[k].embedding)
                    = vz_out.results[i].similarity

\* C28: the list get_job_recommendations returns holds at most one entry per
\* job id, whatever was posted before, also when a job was posted again
\* under an id that already exists.
C28_NoJobTwiceInRecommendations ==
    \A i \in DOMAIN fastOut.matches, j \in DOMAIN fastOut.matches :
        fastOut.matches[i].job_id = fastOut.matches[j].job_id => i = j

\* two spellings name one skill when, lower-cased and stripped, they are the
\* same name or skill_mappings relates them: one is mapped to the other, or
\* both are mapped to the same name
SameSkill(a, b) ==
    LET x == strip(lower(a))
        y == strip(lower(b))
    IN  \/ x = y
        \/ _standardize_skill_name(x) = y
        \/ _standardize_skill_name(y) = x
        \/ _standardize_skill_name(x) = _standardize_skill_name(y)

\* C30: skill-name normalization is idempotent and canonical: a normalized
\* name of a scored call normalizes to itself, and when the candidate and
\* the job name one skill by two spellings, both spellings normalize to the
\* same name and that name is among the exact matches.
C30_AliasesNormalizeToOneName ==
    (scIn.scorer = "skill" /\ scOut # NotScored) =>
        LET result == SkillMatcher_calculate_match(scIn.candidate_skills,
                          scIn.required_skills, scIn.preferred_skills,
                          scIn.resume_text, scIn.candidate_order)
        IN  /\ \A n \in _normalize_skills(scIn.candidate_skills \cup scIn.required_skills) :
                    _normalize_skills({n}) = {n}
            /\ \A a \in scIn.candidate_skills, b \in scIn.required_skills :
                    SameSkill(a, b) =>
                        /\ _normalize_skills({a}) = _normalize_skills({b})
                        /\ _normalize_skills({a}) \subseteq result.exact_matches

====
